---- MODULE Spec2Model ----
(***************************************************************************)
(* A model of the backtest simulator of src/backtesting.py                 *)
(* (Backtester.run_backtest, open_position, close_position,                *)
(* calculate_metrics) under the configuration of src/config.py.            *)
(*                                                                         *)
(* Money, quantities and prices are Python floats in the source.  They are *)
(* modelled as exact rationals <<numerator, denominator>> in lowest terms  *)
(* with a positive denominator, so every product, quotient and comparison  *)
(* of the source is computed, not assumed.                                 *)
(*                                                                         *)
(* The per-bar pattern analysis (lines 110-137) is modelled twice.  ReadBar *)
(* summarises it by its two results, buy_signals and sell_signals, which   *)
(* it draws together with the bar's Close.  AnalyzeBar computes it from    *)
(* the candles of every timeframe of the input with the detectors of       *)
(* src/patterns.py.                                                        *)
(***************************************************************************)
EXTENDS Integers, Sequences, FiniteSets, TLC

VARIABLES
    SYMBOLS,          \* config.SYMBOLS, in configuration order
    TIMEFRAMES,       \* config.TIMEFRAMES, the first one is the primary timeframe
    candle_data,      \* <<symbol, timeframe>> -> candles of the input's series
    patterns_by_timeframe, \* local patterns_by_timeframe of the bar
    analysis_windows, \* history: timeframe -> current_idx and analysis_df of the bar
    initial_balance,  \* self.initial_balance
    historical_data,  \* symbol -> Close column of its primary series, rows read so far
    balance,          \* self.balance
    positions,        \* self.positions: insertion-ordered dict keyed by symbol
    trades_history,   \* self.trades_history
    results,          \* the results dict of run_backtest
    pc,               \* position of run_backtest
    symbol_idx,       \* index in SYMBOLS of the symbol of the outer loop
    i,                \* index of the bar of the inner loop
    current_time,     \* local current_time (the bar's index stands for its timestamp)
    current_price,    \* local current_price
    buy_signals,      \* local buy_signals
    sell_signals,     \* local sell_signals
    final_prices,     \* local final_prices
    to_close,         \* list(self.positions.keys()) still to visit in the closing loop
    opens,            \* history: number of positions opened so far
    held,             \* history: symbols holding a position when the bar's handling began
    evaluated         \* history: symbols whose position was exit-evaluated on the bar

vars == <<SYMBOLS, TIMEFRAMES, candle_data, patterns_by_timeframe, analysis_windows,
          initial_balance, historical_data, balance, positions, trades_history, results,
          pc, symbol_idx, i, current_time, current_price, buy_signals,
          sell_signals, final_prices, to_close, opens, held, evaluated>>

(***************************************************************************)
(* Exact rational arithmetic.                                              *)
(***************************************************************************)
Abs(x) == IF x < 0 THEN -x ELSE x

RECURSIVE GCD(_, _)
GCD(a, b) == IF b = 0 THEN a ELSE GCD(b, a % b)

\* a quotient in lowest terms with a positive denominator
Lowest(p) ==
    LET g == GCD(Abs(p[1]), Abs(p[2]))
        sg == IF p[2] < 0 THEN -1 ELSE 1
    IN  <<(sg * p[1]) \div g, (sg * p[2]) \div g>>

\* the operands are bound as values, so each is computed once
Rat(n, d) == CHOOSE r \in {Lowest(p) : p \in {<<n, d>>}} : TRUE

R(k) == <<k, 1>>

RNeg(a) == <<-a[1], a[2]>>

Sum(p) ==
    LET a == p[1]
        b == p[2]
        l == (a[2] \div GCD(a[2], b[2])) * b[2]
    IN  Rat(a[1] * (l \div a[2]) + b[1] * (l \div b[2]), l)

RAdd(a, b) == CHOOSE r \in {Sum(p) : p \in {<<a, b>>}} : TRUE

RSub(a, b) == RAdd(a, RNeg(b))

Product(p) ==
    LET a == p[1]
        b == p[2]
        g1 == GCD(Abs(a[1]), b[2])
        g2 == GCD(Abs(b[1]), a[2])
    IN  Rat((a[1] \div g1) * (b[1] \div g2), (a[2] \div g2) * (b[2] \div g1))

RMul(a, b) == CHOOSE r \in {Product(p) : p \in {<<a, b>>}} : TRUE

RDiv(a, b) == RMul(a, IF b[1] > 0 THEN <<b[2], b[1]>> ELSE <<-b[2], -b[1]>>)

\* The special values of a float64, written as quotients by zero.
Inf    == <<1, 0>>
NegInf == <<-1, 0>>
NaN    == <<0, 0>>

IsFinite(x) == x[2] # 0

\* x / y of two finite numpy.float64: a zero divisor yields inf, -inf or nan
FDiv(a, b) ==
    IF b[1] # 0 THEN RDiv(a, b)
    ELSE IF a[1] > 0 THEN Inf ELSE IF a[1] < 0 THEN NegInf ELSE NaN

RLeq(a, b) == RSub(b, a)[1] >= 0
RLt(a, b)  == RSub(b, a)[1] > 0
RGeq(a, b) == RLeq(b, a)
RGt(a, b)  == RLt(b, a)

\* x > y of two float64: false when either is nan
FGt(x, y) ==
    IF x = NaN \/ y = NaN THEN FALSE
    ELSE IF x = Inf THEN y # Inf
    ELSE IF y = NegInf THEN x # NegInf
    ELSE IF x = NegInf \/ y = Inf THEN FALSE
    ELSE RGt(x, y)

\* x * 100 of a float64
FTimes100(x) == IF IsFinite(x) THEN RMul(x, R(100)) ELSE x

(***************************************************************************)
(* Configuration (src/config.py) and the constructor's default balance.    *)
(***************************************************************************)
POSITION_SIZE       == Rat(1, 100)
MAX_POSITIONS       == 3
STOP_LOSS_PERCENT   == Rat(2, 100)
TAKE_PROFIT_PERCENT == Rat(4, 100)
DefaultInitialBalance == 10000

(***************************************************************************)
(* self.positions is a Python dict: insertion-ordered, one value per key.  *)
(* It is a sequence of position records, each carrying its key as symbol.  *)
(***************************************************************************)
Keys(d) == [k \in 1..Len(d) |-> d[k].symbol]
KeySet(d) == {d[k].symbol : k \in 1..Len(d)}
Get(d, key) == d[CHOOSE k \in 1..Len(d) : d[k].symbol = key]
DictSet(d, key, rec) ==
    IF key \in KeySet(d)
    THEN [k \in 1..Len(d) |-> IF d[k].symbol = key THEN rec ELSE d[k]]
    ELSE Append(d, rec)
DictDel(d, key) == SelectSeq(d, LAMBDA r : r.symbol # key)

\* len(self.positions)
PositionCountOffByOne(d) == Len(d) - 1
PositionCount(d) == Len(d)

\* symbol in self.positions
HasPositionNever(d, symbol) == FALSE
HasPosition(d, symbol) == symbol \in KeySet(d)

(***************************************************************************)
(* Backtester.calculate_position_size, open_position, close_position.      *)
(* L is the ledger [balance, positions, trades_history] of the Backtester; *)
(* each operator yields the ledger the method leaves behind.               *)
(***************************************************************************)
calculate_position_size_initial(bal) == RMul(R(initial_balance), POSITION_SIZE)
calculate_position_size(bal) == RMul(bal, POSITION_SIZE)

\* lines 32-33
stop_loss_of_swapped(side, price) ==
    IF side = "BUY" THEN RMul(price, RAdd(R(1), STOP_LOSS_PERCENT))
                    ELSE RMul(price, RSub(R(1), STOP_LOSS_PERCENT))
stop_loss_of(side, price) ==
    IF side = "BUY" THEN RMul(price, RSub(R(1), STOP_LOSS_PERCENT))
                    ELSE RMul(price, RAdd(R(1), STOP_LOSS_PERCENT))

\* lines 34-35
take_profit_of(side, price) ==
    IF side = "BUY" THEN RMul(price, RAdd(R(1), TAKE_PROFIT_PERCENT))
                    ELSE RMul(price, RSub(R(1), TAKE_PROFIT_PERCENT))

open_position_no_debit(L, symbol, side, price, timestamp, pattern_info) ==
    IF PositionCount(L.positions) >= MAX_POSITIONS THEN L
    ELSE LET position_size == calculate_position_size(L.balance)
             cost == position_size
         IN  IF RGt(cost, L.balance) THEN L
             ELSE [L EXCEPT
                     !.positions = DictSet(@, symbol,
                        [symbol        |-> symbol,
                         side          |-> side,
                         entry_price   |-> price,
                         stop_loss     |-> stop_loss_of(side, price),
                         take_profit   |-> take_profit_of(side, price),
                         position_size |-> RDiv(position_size, price),
                         cost          |-> cost,
                         pattern       |-> pattern_info,
                         timestamp     |-> timestamp])]

open_position_uncapped(L, symbol, side, price, timestamp, pattern_info) ==
    LET position_size == calculate_position_size(L.balance)
        cost == position_size
    IN  IF RGt(cost, L.balance) THEN L
        ELSE [L EXCEPT
                !.positions = DictSet(@, symbol,
                   [symbol        |-> symbol,
                    side          |-> side,
                    entry_price   |-> price,
                    stop_loss     |-> stop_loss_of(side, price),
                    take_profit   |-> take_profit_of(side, price),
                    position_size |-> RDiv(position_size, price),
                    cost          |-> cost,
                    pattern       |-> pattern_info,
                    timestamp     |-> timestamp]),
                !.balance = RSub(@, cost)]

open_position(L, symbol, side, price, timestamp, pattern_info) ==
    IF PositionCount(L.positions) >= MAX_POSITIONS THEN L
    ELSE LET position_size == calculate_position_size(L.balance)
             cost == position_size
         IN  IF RGt(cost, L.balance) THEN L
             ELSE [L EXCEPT
                     !.positions = DictSet(@, symbol,
                        [symbol        |-> symbol,
                         side          |-> side,
                         entry_price   |-> price,
                         stop_loss     |-> stop_loss_of(side, price),
                         take_profit   |-> take_profit_of(side, price),
                         position_size |-> RDiv(position_size, price),
                         cost          |-> cost,
                         pattern       |-> pattern_info,
                         timestamp     |-> timestamp]),
                     !.balance = RSub(@, cost)]

\* open_position passes both of its guards (lines 23 and 29) and stores a position
Opens(L) ==
    /\ ~(PositionCount(L.positions) >= MAX_POSITIONS)
    /\ ~RGt(calculate_position_size(L.balance), L.balance)

\* lines 57-61
pnl_of_short_only(position, exit_price) ==
    RMul(RSub(position.entry_price, exit_price), position.position_size)
pnl_of_long_only(position, exit_price) ==
    RMul(RSub(exit_price, position.entry_price), position.position_size)
pnl_of(position, exit_price) ==
    IF position.side = "BUY"
    THEN RMul(RSub(exit_price, position.entry_price), position.position_size)
    ELSE RMul(RSub(position.entry_price, exit_price), position.position_size)

\* line 73; pnl is a numpy.float64, so a zero cost yields nan and raises nothing
\* (the cost is zero only when the balance is, and then so is the pnl)
pnl_percent_of(pnl, cost) ==
    IF cost[1] = 0 THEN NaN ELSE RMul(RDiv(pnl, cost), R(100))

trade_record_of(position, symbol, exit_price, timestamp, reason) ==
    [symbol        |-> symbol,
     side          |-> position.side,
     entry_price   |-> position.entry_price,
     exit_price    |-> exit_price,
     position_size |-> position.position_size,
     pnl           |-> pnl_of(position, exit_price),
     pnl_percent   |-> pnl_percent_of(pnl_of(position, exit_price), position.cost),
     entry_time    |-> position.timestamp,
     exit_time     |-> timestamp,
     reason        |-> reason,
     pattern       |-> position.pattern]

close_position_pnl_only(L, symbol, exit_price, timestamp, reason) ==
    IF ~HasPosition(L.positions, symbol) THEN L
    ELSE LET position == Get(L.positions, symbol)
             pnl == pnl_of(position, exit_price)
         IN  [balance        |-> RAdd(L.balance, pnl),
              trades_history |-> Append(L.trades_history,
                                   trade_record_of(position, symbol, exit_price,
                                                   timestamp, reason)),
              positions      |-> DictDel(L.positions, symbol)]

close_position_keeps(L, symbol, exit_price, timestamp, reason) ==
    IF ~HasPosition(L.positions, symbol) THEN L
    ELSE LET position == Get(L.positions, symbol)
             pnl == pnl_of(position, exit_price)
         IN  [balance        |-> RAdd(L.balance, RAdd(position.cost, pnl)),
              trades_history |-> Append(L.trades_history,
                                   trade_record_of(position, symbol, exit_price,
                                                   timestamp, reason)),
              positions      |-> L.positions]

close_position(L, symbol, exit_price, timestamp, reason) ==
    IF ~HasPosition(L.positions, symbol) THEN L
    ELSE LET position == Get(L.positions, symbol)
             pnl == pnl_of(position, exit_price)
         IN  [balance        |-> RAdd(L.balance, RAdd(position.cost, pnl)),
              trades_history |-> Append(L.trades_history,
                                   trade_record_of(position, symbol, exit_price,
                                                   timestamp, reason)),
              positions      |-> DictDel(L.positions, symbol)]

Ledger == [balance |-> balance, positions |-> positions,
           trades_history |-> trades_history]

(***************************************************************************)
(* The two decisions of the bar loop of run_backtest.                      *)
(***************************************************************************)
\* lines 144-153: the exit of an open position at the bar's price, "" for none
exit_reason_strict(pos, price) ==
    IF pos.side = "BUY"
    THEN IF RLt(price, pos.stop_loss) THEN "Stop Loss"
         ELSE IF RGt(price, pos.take_profit) THEN "Take Profit"
         ELSE ""
    ELSE IF RGt(price, pos.stop_loss) THEN "Stop Loss"
         ELSE IF RLt(price, pos.take_profit) THEN "Take Profit"
         ELSE ""
exit_reason(pos, price) ==
    IF pos.side = "BUY"
    THEN IF RLeq(price, pos.stop_loss) THEN "Stop Loss"
         ELSE IF RGeq(price, pos.take_profit) THEN "Take Profit"
         ELSE ""
    ELSE IF RGeq(price, pos.stop_loss) THEN "Stop Loss"
         ELSE IF RLeq(price, pos.take_profit) THEN "Take Profit"
         ELSE ""

\* lines 157-160: the side the votes open, "" for none
open_side_sell_first(buy, sell) ==
    IF sell >= 2 THEN "SELL" ELSE IF buy >= 2 THEN "BUY" ELSE ""
open_side(buy, sell) ==
    IF buy >= 2 THEN "BUY" ELSE IF sell >= 2 THEN "SELL" ELSE ""

(***************************************************************************)
(* Backtester.calculate_metrics (lines 192-246).                           *)
(* The pnl of a trade is a numpy.float64 when the prices were read from a  *)
(* DataFrame and a plain float when the caller passed plain floats.  A     *)
(* division by zero (lines 227 and 241) yields inf or nan for the former   *)
(* and raises ZeroDivisionError for the latter.                            *)
(***************************************************************************)
RECURSIVE SumPnl(_)
SumPnl(pnls) == IF pnls = <<>> THEN R(0) ELSE RAdd(Head(pnls), SumPnl(Tail(pnls)))

\* line 211
PnlList(trades) == [k \in 1..Len(trades) |-> trades[k].pnl]

\* line 208
profitable_trades_of_not_losing(pnl_list) == Len(SelectSeq(pnl_list, LAMBDA x : x[1] >= 0))
profitable_trades_of(pnl_list) == Len(SelectSeq(pnl_list, LAMBDA x : x[1] > 0))

\* lines 216-220: the running balance after each trade
RECURSIVE BalanceCurveFromZero(_, _)
BalanceCurveFromZero(start, pnls) ==
    IF pnls = <<>> THEN <<>>
    ELSE <<Head(pnls)>> \o BalanceCurveFromZero(Head(pnls), Tail(pnls))
RECURSIVE BalanceCurve(_, _)
BalanceCurve(start, pnls) ==
    IF pnls = <<>> THEN <<>>
    ELSE <<RAdd(start, Head(pnls))>> \o BalanceCurve(RAdd(start, Head(pnls)), Tail(pnls))

\* lines 222-228
RECURSIVE MaxDrawdownFixedPeak(_, _, _)
MaxDrawdownFixedPeak(curve, peak_balance, max_drawdown) ==
    IF curve = <<>> THEN max_drawdown
    ELSE LET b == Head(curve)
             drawdown == FDiv(RSub(peak_balance, b), peak_balance)
         IN  MaxDrawdownFixedPeak(Tail(curve), peak_balance,
                         IF FGt(drawdown, max_drawdown) THEN drawdown ELSE max_drawdown)
RECURSIVE MaxDrawdown(_, _, _)
MaxDrawdown(curve, peak_balance, max_drawdown) ==
    IF curve = <<>> THEN max_drawdown
    ELSE LET b == Head(curve)
             peak == IF RGt(b, peak_balance) THEN b ELSE peak_balance
             drawdown == FDiv(RSub(peak, b), peak)
         IN  MaxDrawdown(Tail(curve), peak,
                         IF FGt(drawdown, max_drawdown) THEN drawdown ELSE max_drawdown)

\* lines 224-227: some iteration divides by a peak balance of zero
RECURSIVE ZeroPeak(_, _)
ZeroPeak(curve, peak_balance) ==
    IF curve = <<>> THEN FALSE
    ELSE LET peak == IF RGt(Head(curve), peak_balance) THEN Head(curve) ELSE peak_balance
         IN  peak[1] = 0 \/ ZeroPeak(Tail(curve), peak)

\* lines 231-234
profit_factor_of_signed(pnl_list) ==
    LET winning_trades == SelectSeq(pnl_list, LAMBDA x : x[1] > 0)
        losing_trades == SelectSeq(pnl_list, LAMBDA x : x[1] < 0)
    IN  IF SumPnl(losing_trades)[1] # 0
        THEN RDiv(SumPnl(winning_trades), SumPnl(losing_trades))
        ELSE Inf
profit_factor_of(pnl_list) ==
    LET winning_trades == SelectSeq(pnl_list, LAMBDA x : x[1] > 0)
        losing_trades == [k \in 1..Len(SelectSeq(pnl_list, LAMBDA x : x[1] < 0)) |->
                            RNeg(SelectSeq(pnl_list, LAMBDA x : x[1] < 0)[k])]
    IN  IF SumPnl(losing_trades)[1] > 0
        THEN RDiv(SumPnl(winning_trades), SumPnl(losing_trades))
        ELSE Inf

\* the metrics returned when no division raises
calculate_metrics(trades, bal) ==
    IF trades = <<>>
    THEN [total_trades |-> 0, profitable_trades |-> 0, win_rate |-> R(0),
          total_pnl |-> R(0), total_return |-> R(0), average_pnl |-> R(0),
          max_drawdown |-> R(0), final_balance |-> bal, profit_factor |-> R(0)]
    ELSE LET pnl_list == PnlList(trades)
             total_trades == Len(trades)
             profitable_trades == profitable_trades_of(pnl_list)
             total_pnl == SumPnl(pnl_list)
         IN  [total_trades      |-> total_trades,
              profitable_trades |-> profitable_trades,
              win_rate          |-> Rat(profitable_trades, total_trades),
              total_pnl         |-> total_pnl,
              total_return      |-> FTimes100(FDiv(total_pnl, R(initial_balance))),
              average_pnl       |-> RDiv(total_pnl, R(total_trades)),
              max_drawdown      |-> FTimes100(MaxDrawdown(
                                        BalanceCurve(R(initial_balance), pnl_list),
                                        R(initial_balance), R(0))),
              final_balance     |-> bal,
              profit_factor     |-> profit_factor_of(pnl_list)]

\* lines 227 and 241 divide by zero: ZeroDivisionError when the pnls are plain floats
metrics_divide_by_zero(trades) ==
    /\ trades # <<>>
    /\ \/ initial_balance = 0
       \/ ZeroPeak(BalanceCurve(R(initial_balance), PnlList(trades)), R(initial_balance))

(***************************************************************************)
(* Backtester.run_backtest (lines 83-190), one action per step of it.      *)
(***************************************************************************)
symbol == SYMBOLS[symbol_idx]

SymbolSet == {SYMBOLS[k] : k \in 1..Len(SYMBOLS)}

\* the candles of the primary series read so far, over all symbols
RECURSIVE BarsRead(_)
BarsRead(k) ==
    IF k = 0 THEN 0
    ELSE (IF SYMBOLS[k] \in DOMAIN historical_data
          THEN Len(historical_data[SYMBOLS[k]]) ELSE 0) + BarsRead(k - 1)

\* lines 85-89 and the locals of run_backtest before its first bar
NoRun ==
    /\ TIMEFRAMES = <<"1h", "4h", "1d">>
    /\ candle_data = <<>>
    /\ patterns_by_timeframe = <<>>
    /\ analysis_windows = <<>>
    /\ results = [trades |-> <<>>, balance_history |-> <<>>, metrics |-> <<>>]
    /\ symbol_idx = 1
    /\ i = 0
    /\ current_time = 0
    /\ current_price = R(0)
    /\ buy_signals = 0
    /\ sell_signals = 0
    /\ final_prices = <<>>
    /\ to_close = <<>>
    /\ opens = 0
    /\ held = {}
    /\ evaluated = {}

\* lines 9-15 and 91-94: construction and the reset at the start of a run
InitWith(symbols) ==
    /\ SYMBOLS = symbols
    /\ initial_balance = DefaultInitialBalance
    /\ historical_data = [sym \in {symbols[k] : k \in 1..Len(symbols)} |-> <<>>]
    /\ balance = R(initial_balance)
    /\ positions = <<>>
    /\ trades_history = <<>>
    /\ pc = "bar"
    /\ NoRun

\* lines 107-139: the next candle of the symbol's primary series is read; its
\* pattern analysis over all timeframes yields the two vote counts
ReadBar(Closes, Votes, maxBars) ==
    /\ pc = "bar"
    /\ symbol \in DOMAIN historical_data
    /\ BarsRead(Len(SYMBOLS)) < maxBars
    /\ \E close \in Closes, votes \in Votes :
         /\ historical_data' = [historical_data EXCEPT ![symbol] = Append(@, close)]
         /\ current_price' = R(close)
         /\ buy_signals' = votes[1]
         /\ sell_signals' = votes[2]
    /\ i' = Len(historical_data[symbol])
    /\ current_time' = Len(historical_data[symbol])
    /\ pc' = "manage"
    /\ UNCHANGED <<SYMBOLS, TIMEFRAMES, candle_data, patterns_by_timeframe, analysis_windows,
                   initial_balance, balance, positions, trades_history, results, symbol_idx,
                   final_prices, to_close, opens, held, evaluated>>

\* lines 141-160
ManagePositions ==
    /\ pc = "manage"
    /\ LET L == IF HasPosition(positions, symbol)
                THEN LET pos == Get(positions, symbol)
                         reason == exit_reason(pos, current_price)
                     IN  IF reason # ""
                         THEN close_position(Ledger, symbol, current_price,
                                             current_time, reason)
                         ELSE Ledger
                ELSE IF PositionCount(positions) < MAX_POSITIONS
                        /\ open_side(buy_signals, sell_signals) # ""
                     THEN open_position(Ledger, symbol,
                                        open_side(buy_signals, sell_signals),
                                        current_price, current_time,
                                        <<buy_signals, sell_signals>>)
                     ELSE Ledger
       IN  /\ balance' = L.balance
           /\ positions' = L.positions
           /\ trades_history' = L.trades_history
    /\ opens' = IF /\ ~HasPosition(positions, symbol)
                   /\ PositionCount(positions) < MAX_POSITIONS
                   /\ open_side(buy_signals, sell_signals) # ""
                   /\ Opens(Ledger)
                THEN opens + 1 ELSE opens
    /\ held' = KeySet(positions)
    /\ evaluated' = IF HasPosition(positions, symbol) THEN {symbol} ELSE {}
    /\ pc' = "record"
    /\ UNCHANGED <<SYMBOLS, TIMEFRAMES, candle_data, patterns_by_timeframe, analysis_windows,
                   initial_balance, historical_data, results, symbol_idx, i, current_time,
                   current_price, buy_signals, sell_signals, final_prices, to_close>>

\* lines 163-166
RECURSIVE total_position_value_at_entry(_, _)
total_position_value_at_entry(d, price) ==
    IF d = <<>> THEN R(0)
    ELSE RAdd(RMul(Head(d).position_size, Head(d).entry_price),
              total_position_value_at_entry(Tail(d), price))
RECURSIVE total_position_value(_, _)
total_position_value(d, price) ==
    IF d = <<>> THEN R(0)
    ELSE RAdd(RMul(Head(d).position_size, price), total_position_value(Tail(d), price))

\* lines 162-171
RecordBalance ==
    /\ pc = "record"
    /\ results' = [results EXCEPT !.balance_history = Append(@,
                      [timestamp |-> current_time,
                       balance   |-> RAdd(balance,
                                          total_position_value(positions, current_price))])]
    /\ pc' = "bar"
    /\ UNCHANGED <<SYMBOLS, TIMEFRAMES, candle_data, patterns_by_timeframe, analysis_windows,
                   initial_balance, historical_data, balance, positions, trades_history,
                   symbol_idx, i, current_time, current_price, buy_signals,
                   sell_signals, final_prices, to_close, opens, held, evaluated>>

\* lines 105 and 107: the symbol's series is exhausted; the next symbol, or the end
EndSeries ==
    /\ pc = "bar"
    /\ symbol \in DOMAIN historical_data
    /\ IF symbol_idx < Len(SYMBOLS)
       THEN /\ symbol_idx' = symbol_idx + 1
            /\ pc' = "bar"
       ELSE /\ symbol_idx' = symbol_idx
            /\ pc' = "final"
    /\ UNCHANGED <<SYMBOLS, TIMEFRAMES, candle_data, patterns_by_timeframe, analysis_windows,
                   initial_balance, historical_data, balance, positions, trades_history,
                   results, i, current_time, current_price, buy_signals,
                   sell_signals, final_prices, to_close, opens, held, evaluated>>

\* line 107: the input holds no primary series for the symbol, KeyError
MissingSeries ==
    /\ pc = "bar"
    /\ symbol \notin DOMAIN historical_data
    /\ pc' = "error"
    /\ UNCHANGED <<SYMBOLS, TIMEFRAMES, candle_data, patterns_by_timeframe, analysis_windows,
                   initial_balance, historical_data, balance, positions,
                   trades_history, results, symbol_idx, i, current_time, current_price,
                   buy_signals, sell_signals, final_prices, to_close, opens, held,
                   evaluated>>

\* line 175: iloc[-1] raises IndexError on a series without rows
final_price_raises_single(data, sym) == sym \notin DOMAIN data \/ Len(data[sym]) <= 1
final_price_raises(data, sym) == sym \notin DOMAIN data \/ data[sym] = <<>>

\* line 175: iloc[-1]['Close'] of a series
final_price_first(series) == R(series[1])
final_price_of(series) == R(series[Len(series)])

\* lines 174-179
FinalPrices ==
    /\ pc = "final"
    /\ IF \E sym \in SymbolSet : final_price_raises(historical_data, sym)
       THEN /\ pc' = "error"
            /\ UNCHANGED <<final_prices, to_close>>
       ELSE /\ final_prices' = [sym \in SymbolSet |-> final_price_of(historical_data[sym])]
            /\ to_close' = Keys(positions)
            /\ pc' = "closing"
    /\ UNCHANGED <<SYMBOLS, TIMEFRAMES, candle_data, patterns_by_timeframe, analysis_windows,
                   initial_balance, historical_data, balance, positions, trades_history,
                   results, symbol_idx, i, current_time, current_price, buy_signals,
                   sell_signals, opens, held, evaluated>>

\* lines 179-185
CloseRemaining ==
    /\ pc = "closing"
    /\ to_close # <<>>
    /\ LET sym == Head(to_close)
           L == close_position(Ledger, sym, final_prices[sym],
                               Len(historical_data[sym]) - 1, "End of Backtest")
       IN  /\ balance' = L.balance
           /\ positions' = L.positions
           /\ trades_history' = L.trades_history
    /\ to_close' = Tail(to_close)
    /\ UNCHANGED <<SYMBOLS, TIMEFRAMES, candle_data, patterns_by_timeframe, analysis_windows,
                   initial_balance, historical_data, results, pc, symbol_idx, i, current_time,
                   current_price, buy_signals, sell_signals, final_prices, opens,
                   held, evaluated>>

\* lines 187-190; a ZeroDivisionError of calculate_metrics leaves run_backtest
Finish ==
    /\ pc = "closing"
    /\ to_close = <<>>
    /\ \/ /\ results' = [results EXCEPT
                              !.trades = trades_history,
                              !.metrics = calculate_metrics(trades_history, balance)]
          /\ pc' = "done"
       \/ /\ metrics_divide_by_zero(trades_history)
          /\ results' = results
          /\ pc' = "error"
    /\ UNCHANGED <<SYMBOLS, TIMEFRAMES, candle_data, patterns_by_timeframe, analysis_windows,
                   initial_balance, historical_data, balance, positions, trades_history,
                   symbol_idx, i, current_time, current_price, buy_signals,
                   sell_signals, final_prices, to_close, opens, held, evaluated>>

(***************************************************************************)
(* Specifications.  Each of them runs the same steps over a different      *)
(* configuration and candle data.                                          *)
(*   Spec        two symbols; closes that stop out and take profit.        *)
(*   SpecBudget  four symbols, one more than MAX_POSITIONS.                *)
(*   SpecExits   one symbol; closes on, between and beyond the exit levels *)
(*               of an entry at 100, and a close of 1, from which a short  *)
(*               loses more than the balance.                              *)
(*   SpecData    two symbols; the input may lack the series of either.     *)
(*   SpecOrder   two symbols with an entry signal on every bar, over       *)
(*               series long enough for a trade of the first symbol to end *)
(*               after a trade of the second.                              *)
(* MaxBars, MaxBudgetBars, MaxExitBars and MaxOrderBars bound the number   *)
(* of candles of the primary series, summed over the symbols.              *)
(***************************************************************************)
MaxBars == 4
Closes == {100, 200}
Votes == {<<1, 1>>, <<2, 1>>, <<1, 2>>, <<2, 2>>}

Init == InitWith(<<"BTCUSDT", "ETHUSDT">>)

Next ==
    \/ ReadBar(Closes, Votes, MaxBars)
    \/ ManagePositions
    \/ RecordBalance
    \/ EndSeries
    \/ FinalPrices
    \/ CloseRemaining
    \/ Finish

Spec == Init /\ [][Next]_vars

MaxBudgetBars == 4
BudgetVotes == {<<1, 1>>, <<1, 2>>, <<2, 2>>}

InitBudget == InitWith(<<"BTCUSDT", "ETHUSDT", "XRPUSDT", "SOLUSDT">>)

NextBudget ==
    \/ ReadBar(Closes, BudgetVotes, MaxBudgetBars)
    \/ ManagePositions
    \/ RecordBalance
    \/ EndSeries
    \/ FinalPrices
    \/ CloseRemaining
    \/ Finish

SpecBudget == InitBudget /\ [][NextBudget]_vars

MaxExitBars == 3
ExitCloses == {1, 96, 98, 100, 102, 104}
ExitVotes == {<<0, 0>>, <<2, 0>>, <<0, 2>>}

InitExits == InitWith(<<"BTCUSDT">>)

NextExits ==
    \/ ReadBar(ExitCloses, ExitVotes, MaxExitBars)
    \/ ManagePositions
    \/ RecordBalance
    \/ EndSeries
    \/ FinalPrices
    \/ CloseRemaining
    \/ Finish

SpecExits == InitExits /\ [][NextExits]_vars

MaxOrderBars == 5
OrderVotes == {<<2, 0>>, <<0, 2>>}

InitOrder == InitWith(<<"BTCUSDT", "ETHUSDT">>)

NextOrder ==
    \/ ReadBar(Closes, OrderVotes, MaxOrderBars)
    \/ ManagePositions
    \/ RecordBalance
    \/ EndSeries
    \/ FinalPrices
    \/ CloseRemaining
    \/ Finish

SpecOrder == InitOrder /\ [][NextOrder]_vars

MaxDataBars == 2
DataVotes == {<<1, 1>>, <<2, 0>>}

\* the input holds a primary series for any of the configured symbols or for none
InitData ==
    /\ SYMBOLS = <<"BTCUSDT", "ETHUSDT">>
    /\ initial_balance = DefaultInitialBalance
    /\ historical_data \in {[sym \in present |-> <<>>] :
                                present \in SUBSET {"BTCUSDT", "ETHUSDT"}}
    /\ balance = R(initial_balance)
    /\ positions = <<>>
    /\ trades_history = <<>>
    /\ pc = "bar"
    /\ NoRun

NextData ==
    \/ ReadBar(Closes, DataVotes, MaxDataBars)
    \/ MissingSeries
    \/ ManagePositions
    \/ RecordBalance
    \/ EndSeries
    \/ FinalPrices
    \/ CloseRemaining
    \/ Finish

SpecData == InitData /\ [][NextData]_vars

\* run_backtest is sequential code without a wait: it takes its next step
FairSpecData == SpecData /\ WF_vars(NextData)

(***************************************************************************)
(* The Backtester driven through its two public ledger methods by a caller *)
(* other than run_backtest.  pc is the method called last, symbol_idx,     *)
(* current_price and current_time are the arguments of that call; the      *)
(* caller's timestamps count its calls.  The caller may ask for an open    *)
(* for any symbol: for one that holds a position the entry of the symbol   *)
(* is overwritten (line 37) and the balance debited again (line 48).       *)
(* Every open multiplies the balance by 99/100: the opens that take effect *)
(* are counted and capped at MaxOpens, which keeps the exact balance       *)
(* within the width of the integers; a call on the full budget, which     *)
(* opens nothing, is never held back.                                      *)
(***************************************************************************)
MaxOpens == 3

OpenPositionCall(maxCalls) ==
    /\ pc \in {"idle", "open_position", "close_position"}
    /\ current_time < maxCalls
    /\ opens < MaxOpens \/ PositionCount(positions) >= MAX_POSITIONS
    /\ \E k \in 1..Len(SYMBOLS) :
         LET L == open_position(Ledger, SYMBOLS[k], "BUY", R(100), current_time, <<>>)
         IN  /\ balance' = L.balance
             /\ positions' = L.positions
             /\ trades_history' = L.trades_history
             /\ symbol_idx' = k
    /\ current_price' = R(100)
    /\ current_time' = current_time + 1
    /\ opens' = IF Opens(Ledger) THEN opens + 1 ELSE opens
    /\ held' = KeySet(positions)
    /\ pc' = "open_position"
    /\ UNCHANGED <<SYMBOLS, TIMEFRAMES, candle_data, patterns_by_timeframe, analysis_windows,
                   initial_balance, historical_data, results, i, buy_signals,
                   sell_signals, final_prices, to_close, evaluated>>

ClosePositionCall(maxCalls) ==
    /\ pc \in {"idle", "open_position", "close_position"}
    /\ current_time < maxCalls
    /\ \E k \in 1..Len(SYMBOLS) :
         LET L == close_position(Ledger, SYMBOLS[k], R(100), current_time, "Manual")
         IN  /\ balance' = L.balance
             /\ positions' = L.positions
             /\ trades_history' = L.trades_history
             /\ symbol_idx' = k
    /\ current_price' = R(100)
    /\ current_time' = current_time + 1
    /\ held' = KeySet(positions)
    /\ pc' = "close_position"
    /\ UNCHANGED <<SYMBOLS, TIMEFRAMES, candle_data, patterns_by_timeframe, analysis_windows,
                   initial_balance, historical_data, results, i, buy_signals,
                   sell_signals, final_prices, to_close, opens, evaluated>>

MaxCalls == 5

InitCalls ==
    /\ SYMBOLS = <<"BTCUSDT", "ETHUSDT", "XRPUSDT", "SOLUSDT">>
    /\ initial_balance = DefaultInitialBalance
    /\ historical_data = [sym \in {SYMBOLS[k] : k \in 1..Len(SYMBOLS)} |-> <<>>]
    /\ balance = R(initial_balance)
    /\ positions = <<>>
    /\ trades_history = <<>>
    /\ pc = "idle"
    /\ NoRun

NextCalls ==
    \/ OpenPositionCall(MaxCalls)
    \/ ClosePositionCall(MaxCalls)

SpecCalls == InitCalls /\ [][NextCalls]_vars

(***************************************************************************)
(* calculate_metrics as a function of the Backtester's fields: the state   *)
(* before line 188 with any trade history, initial balance and snapshots.  *)
(* A trade carries the one field calculate_metrics reads.                  *)
(***************************************************************************)
MaxTrades == 3
MetricPnls == {-200, -100, 0, 100}
MetricBalances == {-100, 0, 100, 10000}
MetricSnapshots == {<<>>, <<[timestamp |-> 0, balance |-> R(1)]>>}

TradeLists(n) == UNION {[1..m -> {[pnl |-> R(p)] : p \in MetricPnls}] : m \in 0..n}

InitMetrics ==
    /\ SYMBOLS = <<"BTCUSDT">>
    /\ TIMEFRAMES = <<"1h", "4h", "1d">>
    /\ candle_data = <<>>
    /\ patterns_by_timeframe = <<>>
    /\ analysis_windows = <<>>
    /\ initial_balance \in MetricBalances
    /\ historical_data = [sym \in {"BTCUSDT"} |-> <<>>]
    /\ trades_history \in TradeLists(MaxTrades)
    /\ balance = RAdd(R(initial_balance), SumPnl(PnlList(trades_history)))
    /\ positions = <<>>
    /\ \E snapshots \in MetricSnapshots :
         results = [trades |-> <<>>, balance_history |-> snapshots, metrics |-> <<>>]
    /\ pc = "closing"
    /\ symbol_idx = 1
    /\ i = 0
    /\ current_time = 0
    /\ current_price = R(0)
    /\ buy_signals = 0
    /\ sell_signals = 0
    /\ final_prices = <<>>
    /\ to_close = <<>>
    /\ opens = Len(trades_history)
    /\ held = {}
    /\ evaluated = {}

NextMetrics == Finish

SpecMetrics == InitMetrics /\ [][NextMetrics]_vars

(***************************************************************************)
(* SMCPatternAnalyzer (src/patterns.py) on a window of candles, and the    *)
(* per-bar analysis of run_backtest (lines 96-137).  A candle is a record  *)
(* [timestamp, Open, High, Low, Close]; a series is a sequence of candles  *)
(* in ascending timestamp order, the key "{symbol}_{timeframe}" of the     *)
(* input is the pair <<symbol, timeframe>>.                                *)
(***************************************************************************)
LIQUIDITY_THRESHOLD_below == Rat(199, 10000)
LIQUIDITY_THRESHOLD == Rat(2, 100)
IMBALANCE_THRESHOLD_below == Rat(149, 10000)
IMBALANCE_THRESHOLD == Rat(15, 1000)
SwingWindow == 5
WindowCap == 100

\* patterns.py lines 9-33; k is the 1-based position of the candle at index i
is_swing_high_not_below(df, k) ==
    \A j \in (k - SwingWindow)..(k + SwingWindow) : j # k => df[k].High >= df[j].High

is_swing_high(df, k) ==
    \A j \in (k - SwingWindow)..(k + SwingWindow) : j # k => df[k].High > df[j].High

is_swing_low(df, k) ==
    \A j \in (k - SwingWindow)..(k + SwingWindow) : j # k => df[k].Low < df[j].Low

RECURSIVE liquidity_levels_from(_, _)
liquidity_levels_from(df, k) ==
    IF k > Len(df) - SwingWindow THEN <<>>
    ELSE (IF is_swing_high(df, k)
          THEN <<[type |-> "resistance", price |-> df[k].High,
                  timestamp |-> df[k].timestamp]>>
          ELSE <<>>)
         \o (IF is_swing_low(df, k)
             THEN <<[type |-> "support", price |-> df[k].Low,
                     timestamp |-> df[k].timestamp]>>
             ELSE <<>>)
         \o liquidity_levels_from(df, k + 1)

identify_liquidity_levels(df) == liquidity_levels_from(df, SwingWindow + 1)

\* patterns.py lines 35-62; k is the 1-based position of the candle at index i
RECURSIVE order_blocks_from(_, _)
order_blocks_from(df, k) ==
    IF k > Len(df) - 1 THEN <<>>
    ELSE LET wide == RGt(RDiv(R(df[k + 1].High - df[k + 1].Low), R(df[k + 1].Low)),
                         LIQUIDITY_THRESHOLD)
             block(type) == [type |-> type, top |-> df[k].High, bottom |-> df[k].Low,
                             timestamp |-> df[k].timestamp]
         IN  (IF /\ df[k].Close > df[k].Open
                 /\ df[k + 1].Close < df[k + 1].Open
                 /\ wide
              THEN <<block("bullish")>> ELSE <<>>)
             \o (IF /\ df[k].Close < df[k].Open
                    /\ df[k + 1].Close > df[k + 1].Open
                    /\ wide
                 THEN <<block("bearish")>> ELSE <<>>)
             \o order_blocks_from(df, k + 1)

identify_order_blocks(df) == order_blocks_from(df, 1)

\* patterns.py lines 64-91; k is the 1-based position of the middle candle
RECURSIVE fair_value_gaps_from(_, _)
fair_value_gaps_from(df, k) ==
    IF k > Len(df) - 1 THEN <<>>
    ELSE LET gap(type, top, bottom) == [type |-> type, top |-> top, bottom |-> bottom,
                                        timestamp |-> df[k].timestamp]
         IN  (IF /\ df[k + 1].Low > df[k - 1].High
                 /\ RGt(RDiv(R(df[k + 1].Low - df[k - 1].High), R(df[k - 1].High)),
                        IMBALANCE_THRESHOLD)
              THEN <<gap("bullish", df[k + 1].Low, df[k - 1].High)>> ELSE <<>>)
             \o (IF /\ df[k + 1].High < df[k - 1].Low
                    /\ RGt(RDiv(R(df[k - 1].Low - df[k + 1].High), R(df[k + 1].High)),
                           IMBALANCE_THRESHOLD)
                 THEN <<gap("bearish", df[k - 1].Low, df[k + 1].High)>> ELSE <<>>)
             \o fair_value_gaps_from(df, k + 1)

identify_fair_value_gaps(df) == fair_value_gaps_from(df, 2)

\* patterns.py lines 93-99
analyze_patterns(df) ==
    [liquidity_levels |-> identify_liquidity_levels(df),
     order_blocks     |-> identify_order_blocks(df),
     fair_value_gaps  |-> identify_fair_value_gaps(df)]

\* lines 96-102: the timeframes of the keys of the input that name the symbol
timeframes_of(data, sym) == {key[2] : key \in {k \in DOMAIN data : k[1] = sym}}

\* line 114, index.get_indexer([t], method='nearest')[0]: the index from 0 of the
\* candle nearest in time, the later one of two equally near, -1 in an empty series
get_indexer_nearest(df, t) ==
    IF df = <<>> THEN -1
    ELSE (CHOOSE k \in 1..Len(df) :
            \A j \in 1..Len(df) :
                \/ Abs(df[k].timestamp - t) < Abs(df[j].timestamp - t)
                \/ Abs(df[k].timestamp - t) = Abs(df[j].timestamp - t) /\ j <= k) - 1

\* lines 116-117: iloc[current_idx-lookback+1 : current_idx+1]
analysis_df_uncapped(df, current_idx) == SubSeq(df, 1, current_idx + 1)
analysis_df(df, current_idx) ==
    LET lookback == IF current_idx + 1 < WindowCap THEN current_idx + 1 ELSE WindowCap
    IN  SubSeq(df, current_idx - lookback + 2, current_idx + 1)

\* lines 112-117: current_idx and analysis_df of every timeframe of the symbol
\* whose lookup finds a candle
windows_at(data, sym, t) ==
    [timeframe \in {tf \in timeframes_of(data, sym) :
                        get_indexer_nearest(data[<<sym, tf>>], t) >= 0} |->
        [current_idx |-> get_indexer_nearest(data[<<sym, timeframe>>], t),
         analysis_df |-> analysis_df(data[<<sym, timeframe>>],
                                     get_indexer_nearest(data[<<sym, timeframe>>], t))]]

\* lines 111-118
patterns_at(data, sym, t) ==
    [timeframe \in DOMAIN windows_at(data, sym, t) |->
        analyze_patterns(windows_at(data, sym, t)[timeframe].analysis_df)]

\* lines 126 and 133: the [-1] of a list of detected patterns
latest_of_first(list) == list[1]
latest_of(list) == list[Len(list)]

\* lines 125-137 for one timeframe's snapshot: its votes for one direction
signals_of(timeframe_patterns, type) ==
    (IF /\ timeframe_patterns.order_blocks # <<>>
        /\ latest_of(timeframe_patterns.order_blocks).type = type
     THEN 1 ELSE 0)
    + (IF /\ timeframe_patterns.fair_value_gaps # <<>>
          /\ latest_of(timeframe_patterns.fair_value_gaps).type = type
       THEN 1 ELSE 0)

\* lines 121-137: the loop over patterns_by_timeframe.values()
RECURSIVE count_signals(_, _, _)
count_signals(by_timeframe, remaining, type) ==
    IF remaining = {} THEN 0
    ELSE LET timeframe == CHOOSE tf \in remaining : TRUE
         IN  signals_of(by_timeframe[timeframe], type)
             + count_signals(by_timeframe, remaining \ {timeframe}, type)

\* the primary series of the symbol, historical_data[f"{symbol}_{TIMEFRAMES[0]}"]
primary_key(sym) == <<sym, TIMEFRAMES[1]>>

\* lines 107-139 on the candles of the input: the next bar of the symbol's
\* primary series is read and the patterns of every timeframe are analysed
AnalyzeBar ==
    /\ pc = "bar"
    /\ symbol \in DOMAIN historical_data
    /\ primary_key(symbol) \in DOMAIN candle_data
    /\ Len(historical_data[symbol]) < Len(candle_data[primary_key(symbol)])
    /\ LET candle == candle_data[primary_key(symbol)][Len(historical_data[symbol]) + 1]
           by_timeframe == patterns_at(candle_data, symbol, candle.timestamp)
       IN  /\ historical_data' = [historical_data EXCEPT ![symbol] = Append(@, candle.Close)]
           /\ current_time' = candle.timestamp
           /\ current_price' = R(candle.Close)
           /\ patterns_by_timeframe' = by_timeframe
           /\ analysis_windows' = windows_at(candle_data, symbol, candle.timestamp)
           /\ buy_signals' = count_signals(by_timeframe, DOMAIN by_timeframe, "bullish")
           /\ sell_signals' = count_signals(by_timeframe, DOMAIN by_timeframe, "bearish")
    /\ i' = Len(historical_data[symbol])
    /\ pc' = "manage"
    /\ UNCHANGED <<SYMBOLS, TIMEFRAMES, candle_data, initial_balance, balance, positions,
                   trades_history, results, symbol_idx, final_prices, to_close, opens,
                   held, evaluated>>

\* line 107: range(len(...)) is exhausted when every candle of the primary series
\* has been read
SeriesRead ==
    /\ primary_key(symbol) \in DOMAIN candle_data
    /\ Len(historical_data[symbol]) = Len(candle_data[primary_key(symbol)])
    /\ EndSeries

(***************************************************************************)
(* Runs over one symbol whose input holds candles of one or two timeframes *)
(* under a configuration of one or two timeframes.  The candle shapes are  *)
(* a falling candle 105 -> 100 (range 5 %), a rising candle 190 -> 200 and *)
(* a falling candle 102 -> 100 whose range is exactly LIQUIDITY_THRESHOLD. *)
(***************************************************************************)
MaxVoteBars == 3
CandleShapes ==
    {[Open |-> 105, High |-> 105, Low |-> 100, Close |-> 100],
     [Open |-> 190, High |-> 200, Low |-> 190, Close |-> 200],
     [Open |-> 102, High |-> 102, Low |-> 100, Close |-> 100]}

\* the candle of a shape at a timestamp
candle_at(shape, t) ==
    [timestamp |-> t, Open |-> shape.Open, High |-> shape.High, Low |-> shape.Low,
     Close |-> shape.Close]

\* the series of n candles stamped 0 .. n-1
SeriesOf(n) ==
    {[k \in 1..n |-> candle_at(shapes[k], k - 1)] : shapes \in [1..n -> CandleShapes]}

InitVotes ==
    /\ SYMBOLS = <<"BTCUSDT">>
    /\ TIMEFRAMES \in {<<"1h">>, <<"1h", "4h">>}
    /\ \E held_timeframes \in {{"1h"}, {"1h", "4h"}} :
         candle_data \in [{<<"BTCUSDT", tf>> : tf \in held_timeframes} -> SeriesOf(MaxVoteBars)]
    /\ patterns_by_timeframe = <<>>
    /\ analysis_windows = <<>>
    /\ initial_balance = DefaultInitialBalance
    /\ historical_data = [sym \in {"BTCUSDT"} |-> <<>>]
    /\ balance = R(initial_balance)
    /\ positions = <<>>
    /\ trades_history = <<>>
    /\ results = [trades |-> <<>>, balance_history |-> <<>>, metrics |-> <<>>]
    /\ pc = "bar"
    /\ symbol_idx = 1
    /\ i = 0
    /\ current_time = 0
    /\ current_price = R(0)
    /\ buy_signals = 0
    /\ sell_signals = 0
    /\ final_prices = <<>>
    /\ to_close = <<>>
    /\ opens = 0
    /\ held = {}
    /\ evaluated = {}

NextVotes ==
    \/ AnalyzeBar
    \/ ManagePositions
    \/ RecordBalance
    \/ SeriesRead
    \/ FinalPrices
    \/ CloseRemaining
    \/ Finish

SpecVotes == InitVotes /\ [][NextVotes]_vars

(***************************************************************************)
(* Runs over one symbol whose second timeframe is coarser than the primary *)
(* one: the primary candles are stamped 0, 1, 2, ..., the two candles of   *)
(* the second series 0 and 4.  Also the run over a primary series of       *)
(* WindowCap + 2 flat candles, which is longer than the lookback.          *)
(***************************************************************************)
MaxClockBars == 4

\* the series of n candles stamped 0, 4, 8, ...
CoarseSeriesOf(n) ==
    {[k \in 1..n |-> candle_at(shapes[k], 4 * (k - 1))] : shapes \in [1..n -> CandleShapes]}

FlatCandle == [Open |-> 100, High |-> 100, Low |-> 100, Close |-> 100]

LongSeries == [k \in 1..(WindowCap + 2) |-> candle_at(FlatCandle, k - 1)]

ClockData ==
    [{<<"BTCUSDT", "1h">>} -> SeriesOf(MaxClockBars) \cup {LongSeries}]
    \cup {[key \in {<<"BTCUSDT", "1h">>, <<"BTCUSDT", "4h">>} |->
              IF key[2] = "1h" THEN pair[1] ELSE pair[2]] :
          pair \in SeriesOf(MaxClockBars) \X CoarseSeriesOf(2)}

InitClock ==
    /\ SYMBOLS = <<"BTCUSDT">>
    /\ TIMEFRAMES = <<"1h", "4h">>
    /\ candle_data \in ClockData
    /\ patterns_by_timeframe = <<>>
    /\ analysis_windows = <<>>
    /\ initial_balance = DefaultInitialBalance
    /\ historical_data = [sym \in {"BTCUSDT"} |-> <<>>]
    /\ balance = R(initial_balance)
    /\ positions = <<>>
    /\ trades_history = <<>>
    /\ results = [trades |-> <<>>, balance_history |-> <<>>, metrics |-> <<>>]
    /\ pc = "bar"
    /\ symbol_idx = 1
    /\ i = 0
    /\ current_time = 0
    /\ current_price = R(0)
    /\ buy_signals = 0
    /\ sell_signals = 0
    /\ final_prices = <<>>
    /\ to_close = <<>>
    /\ opens = 0
    /\ held = {}
    /\ evaluated = {}

NextClock ==
    \/ AnalyzeBar
    \/ ManagePositions
    \/ RecordBalance
    \/ SeriesRead
    \/ FinalPrices
    \/ CloseRemaining
    \/ Finish

SpecClock == InitClock /\ [][NextClock]_vars

(***************************************************************************)
(* SMCPatternAnalyzer.analyze_patterns called on a window of candles by a  *)
(* caller other than run_backtest.  The window is the series of the key    *)
(* <<symbol, "1h">> of candle_data, the dict returned is the "1h" entry of *)
(* patterns_by_timeframe.                                                  *)
(***************************************************************************)
\* the index from 0 each detector's loop runs over, on a window of n candles:
\* patterns.py lines 14, 39 and 68
liquidity_level_range(n) == SwingWindow..(n - SwingWindow - 1)
order_block_range_to_last(n) == 0..(n - 1)
order_block_range(n) == 0..(n - 2)
fair_value_gap_range(n) == 1..(n - 2)

\* .iloc[p] on n rows raises IndexError unless -n <= p < n; the slices of lines
\* 16-17 and 25-26 never raise
iloc_raises(n, p) == p < -n \/ p >= n

\* analyze_patterns raises: a detector reads a row that is not there
\* (lines 16, 25: row i; lines 41-43, 51-53: rows i and i+1; lines 70, 81: rows
\* i-1 and i+1)
analyze_patterns_raises(df) ==
    \/ \E ix \in liquidity_level_range(Len(df)) : iloc_raises(Len(df), ix)
    \/ \E ix \in order_block_range(Len(df)) :
          iloc_raises(Len(df), ix) \/ iloc_raises(Len(df), ix + 1)
    \/ \E ix \in fair_value_gap_range(Len(df)) :
          iloc_raises(Len(df), ix - 1) \/ iloc_raises(Len(df), ix + 1)

analyzed_key == <<SYMBOLS[1], TIMEFRAMES[1]>>

\* patterns.py lines 93-99
AnalyzePatternsCall ==
    /\ pc = "analyze_patterns"
    /\ IF analyze_patterns_raises(candle_data[analyzed_key])
       THEN /\ pc' = "error"
            /\ UNCHANGED patterns_by_timeframe
       ELSE /\ pc' = "returned"
            /\ patterns_by_timeframe' =
                   [tf \in {TIMEFRAMES[1]} |-> analyze_patterns(candle_data[analyzed_key])]
    /\ UNCHANGED <<SYMBOLS, TIMEFRAMES, candle_data, analysis_windows, initial_balance,
                   historical_data, balance, positions, trades_history, results, symbol_idx, i,
                   current_time, current_price, buy_signals, sell_signals, final_prices,
                   to_close, opens, held, evaluated>>

\* the state of a Backtester whose analyzer is handed a window
InitWindow(windows) ==
    /\ SYMBOLS = <<"BTCUSDT">>
    /\ TIMEFRAMES = <<"1h">>
    /\ candle_data \in [{<<"BTCUSDT", "1h">>} -> windows]
    /\ patterns_by_timeframe = <<>>
    /\ analysis_windows = <<>>
    /\ initial_balance = DefaultInitialBalance
    /\ historical_data = [sym \in {"BTCUSDT"} |-> <<>>]
    /\ balance = R(initial_balance)
    /\ positions = <<>>
    /\ trades_history = <<>>
    /\ results = [trades |-> <<>>, balance_history |-> <<>>, metrics |-> <<>>]
    /\ pc = "analyze_patterns"
    /\ symbol_idx = 1
    /\ i = 0
    /\ current_time = 0
    /\ current_price = R(0)
    /\ buy_signals = 0
    /\ sell_signals = 0
    /\ final_prices = <<>>
    /\ to_close = <<>>
    /\ opens = 0
    /\ held = {}
    /\ evaluated = {}

\* the windows of up to n candles stamped 0, 1, ... over a set of shapes
WindowsOver(shapes, n) ==
    UNION {{[k \in 1..m |-> candle_at(w[k], k - 1)] : w \in [1..m -> shapes]} : m \in 0..n}

(***************************************************************************)
(* Windows for the order blocks and the fair-value gaps: a falling candle  *)
(* 200 -> 190 (range above 2 %), a rising candle 203 -> 210 (range above   *)
(* 2 %, 1.5 % above the high of the first), a rising candle 204 -> 208     *)
(* (range below 2 %, 2 % above the high of the first) and a falling candle *)
(* 102 -> 100 whose range is 2 % exactly.                                  *)
(***************************************************************************)
MaxWindow == 4
WindowShapes ==
    {[Open |-> 200, High |-> 200, Low |-> 190, Close |-> 190],
     [Open |-> 203, High |-> 210, Low |-> 203, Close |-> 210],
     [Open |-> 204, High |-> 208, Low |-> 204, Close |-> 208],
     [Open |-> 102, High |-> 102, Low |-> 100, Close |-> 100]}

InitAnalyzer == InitWindow(WindowsOver(WindowShapes, MaxWindow))

NextAnalyzer == AnalyzePatternsCall

SpecAnalyzer == InitAnalyzer /\ [][NextAnalyzer]_vars

(***************************************************************************)
(* Windows for the liquidity levels: plain candles (high 10, low 8) of     *)
(* which at most two are replaced by a peak (high 20), a trough (low 5), a *)
(* candle that is both, or a candle far above the others (30 to 40).       *)
(***************************************************************************)
MaxLevelWindow == 12
PlainCandle == [Open |-> 8, High |-> 10, Low |-> 8, Close |-> 10]
LevelShapes ==
    {PlainCandle,
     [Open |-> 8, High |-> 20, Low |-> 8, Close |-> 20],
     [Open |-> 10, High |-> 10, Low |-> 5, Close |-> 5],
     [Open |-> 5, High |-> 20, Low |-> 5, Close |-> 20],
     [Open |-> 30, High |-> 40, Low |-> 30, Close |-> 40]}

LevelWindows(n) ==
    {<<>>} \cup
    UNION {{[k \in 1..m |-> candle_at(IF k = a THEN x ELSE IF k = b THEN y ELSE PlainCandle,
                                       k - 1)] :
                a \in 1..m, b \in 1..m, x \in LevelShapes, y \in LevelShapes} : m \in 1..n}

InitLevels == InitWindow(LevelWindows(MaxLevelWindow))

NextLevels == AnalyzePatternsCall

SpecLevels == InitLevels /\ [][NextLevels]_vars

(***************************************************************************)
(* Vocabulary of the claims.                                               *)
(***************************************************************************)
Last(seq) == seq[Len(seq)]

\* a step of the bar loop's position handling (lines 141-160)
ManageStep == pc = "manage" /\ pc' = "record"

\* the step appends one trade to the history: a position was closed
CloseStep ==
    /\ Len(trades_history') = Len(trades_history) + 1
    /\ SubSeq(trades_history', 1, Len(trades_history)) = trades_history

\* the step stores a position under a key that held none
OpenStep == KeySet(positions') \ KeySet(positions) # {}

\* the bar's symbol holds a position stored on this very bar
OpenedOnBar(d, side) ==
    /\ symbol \in KeySet(d)
    /\ Get(d, symbol).side = side
    /\ Get(d, symbol).entry_price = current_price
    /\ Get(d, symbol).timestamp = current_time

\* C1: at no point of a run are more than MAX_POSITIONS positions open, summed
\* over all symbols.
C1_MaxOpenPositions == Len(positions) <= MAX_POSITIONS

\* the budget is full and a further symbol with an entry signal was turned away
C1_Witness ==
    /\ pc = "record"
    /\ Len(positions) = MAX_POSITIONS
    /\ symbol \notin KeySet(positions)
    /\ buy_signals >= 2

\* C2: at most one position per symbol is open at any time, and a position is
\* stored for a symbol only when the symbol holds none: no step replaces the
\* position of a symbol that holds one.
C2_OnePositionPerSymbol ==
    /\ [](Cardinality(KeySet(positions)) = Len(positions))
    /\ [][\A k \in 1..Len(positions') :
            positions'[k].symbol \in KeySet(positions)
                => positions'[k] = Get(positions, positions'[k].symbol)]_vars

\* an entry signal arrives on a bar of a symbol that holds a position opened on
\* an earlier bar, and that position is still the one held
C2_Witness ==
    /\ pc = "record"
    /\ symbol \in held
    /\ symbol \in KeySet(positions)
    /\ buy_signals >= 2
    /\ Get(positions, symbol).timestamp < current_time

\* C3: every close (stop loss, take profit or end of run) leaves the cash balance
\* at the balance before the close plus the position's reserved cost plus the pnl
\* recorded in its trade.
C3_CloseCreditsCostPlusPnl ==
    [][CloseStep =>
         balance' = RAdd(RAdd(balance, Get(positions, Last(trades_history').symbol).cost),
                         Last(trades_history').pnl)]_vars

\* a losing stop-loss close and an end-of-run close have both happened
C3_Witness ==
    /\ pc = "done"
    /\ \E k \in 1..Len(trades_history) :
         trades_history[k].reason = "Stop Loss" /\ trades_history[k].pnl[1] < 0
    /\ \E k \in 1..Len(trades_history) : trades_history[k].reason = "End of Backtest"

\* C4: the cash balance changes only when a position is opened, which debits
\* exactly its reserved cost, and when a position is closed, which credits the
\* reserved cost plus the pnl; reading and analysing a bar, handling a bar without
\* an open or a close, recording the equity snapshot and computing the metrics
\* leave it unchanged.
C4_BalanceFrame ==
    [][/\ balance' # balance => OpenStep \/ CloseStep
       /\ OpenStep =>
            \A sym \in KeySet(positions') \ KeySet(positions) :
                balance' = RSub(balance, Get(positions', sym).cost)
       /\ CloseStep =>
            balance' = RAdd(balance,
                            RAdd(Get(positions, Last(trades_history').symbol).cost,
                                 Last(trades_history').pnl))
       /\ ~ManageStep /\ ~(pc = "closing" /\ to_close # <<>>) => balance' = balance
       /\ ManageStep /\ ~OpenStep /\ ~CloseStep => balance' = balance]_vars

\* a run with two opens and two closes has ended on another balance than it began
C4_Witness ==
    /\ pc = "done"
    /\ opens >= 2
    /\ Len(results.balance_history) >= 3
    /\ results.metrics.total_trades >= 2
    /\ balance # R(initial_balance)

\* C5: every trade's pnl is (exit - entry) * quantity for a long and
\* (entry - exit) * quantity for a short, the quantity, the entry price and the
\* side being those of the position as it was opened.
C5_PnlFollowsSide ==
    /\ [](\A k \in 1..Len(trades_history) :
            LET t == trades_history[k]
            IN  t.pnl = IF t.side = "BUY"
                        THEN RMul(RSub(t.exit_price, t.entry_price), t.position_size)
                        ELSE RMul(RSub(t.entry_price, t.exit_price), t.position_size))
    /\ [][CloseStep =>
            LET t == Last(trades_history')
                p == Get(positions, t.symbol)
            IN  /\ t.side = p.side
                /\ t.entry_price = p.entry_price
                /\ t.position_size = p.position_size
                /\ t.entry_time = p.timestamp]_vars
    /\ [](\A k \in 1..Len(positions) :
            positions[k].position_size = RDiv(positions[k].cost, positions[k].entry_price))

\* the history holds a long and a short trade, both with a pnl other than zero
C5_Witness ==
    /\ \E k \in 1..Len(trades_history) :
         trades_history[k].side = "BUY" /\ trades_history[k].pnl[1] # 0
    /\ \E k \in 1..Len(trades_history) :
         trades_history[k].side = "SELL" /\ trades_history[k].pnl[1] # 0

\* C6: a symbol goes from no position to an open position and, by a stop loss, a
\* take profit or the end of the run, back to no position.  Every close removes
\* the symbol's position and appends exactly one trade, no other step appends a
\* trade or removes a position, and at every point the number of trades is the
\* number of opens so far minus the number of open positions.
C6_Lifecycle ==
    /\ [](Len(trades_history) = opens - Len(positions))
    /\ [][/\ trades_history' # trades_history =>
               /\ CloseStep
               /\ pc \in {"manage", "closing"}
               /\ Last(trades_history').symbol \in KeySet(positions)
               /\ positions' = DictDel(positions, Last(trades_history').symbol)
               /\ Last(trades_history').reason \in
                      {"Stop Loss", "Take Profit", "End of Backtest"}
          /\ KeySet(positions) \ KeySet(positions') # {} =>
               /\ CloseStep
               /\ KeySet(positions) \ KeySet(positions') = {Last(trades_history').symbol}
          /\ OpenStep =>
               /\ trades_history' = trades_history
               /\ opens' = opens + 1
               /\ Len(positions') = Len(positions) + 1]_vars

\* a symbol that was closed once holds a position again
C6_Witness ==
    \E k \in 1..Len(trades_history) :
        /\ trades_history[k].symbol \in KeySet(positions)
        /\ Get(positions, trades_history[k].symbol).timestamp > trades_history[k].exit_time

\* C7: when run_backtest finishes no position is open.  Every position open after
\* the last bar is closed once, in the closing loop, at the last close of its own
\* symbol's primary series and with the reason End of Backtest, and its trade is
\* in the trade list of the results, over which the metrics are computed.
C7_EndOfRunCloses ==
    /\ [](pc = "closing" => to_close = Keys(positions))
    /\ [](pc = "done" =>
            /\ positions = <<>>
            /\ results.trades = trades_history
            /\ results.metrics.total_trades = Len(trades_history))
    /\ [][pc = "closing" /\ to_close # <<>> =>
            /\ CloseStep
            /\ Last(trades_history').symbol = Head(to_close)
            /\ Last(trades_history').exit_price =
                   R(Last(historical_data[Head(to_close)]))
            /\ Last(trades_history').exit_time = Len(historical_data[Head(to_close)]) - 1
            /\ Last(trades_history').reason = "End of Backtest"
            /\ positions' = Tail(positions)
            /\ pc' = "closing"]_vars

\* a finished run closed the positions of two symbols at its end, one of them at a
\* last close that differs from the first close of its series
C7_Witness ==
    /\ pc = "done"
    /\ \E j, k \in 1..Len(trades_history) :
         /\ trades_history[j].reason = "End of Backtest"
         /\ trades_history[k].reason = "End of Backtest"
         /\ trades_history[j].symbol # trades_history[k].symbol
         /\ trades_history[k].exit_price # R(historical_data[trades_history[k].symbol][1])

\* C8 as stated: on every processed bar every open position, of whichever symbol,
\* is evaluated for an exit.
C8_AllPositionsEvaluated == pc = "record" => held \subseteq evaluated

\* C8 as the code has it: on every processed bar the position of the bar's own
\* symbol, if it holds one, is evaluated for an exit, and a bar on which that
\* evaluation takes place opens no position; the positions of the other symbols
\* are neither evaluated nor touched on that bar.
C8_OwnPositionEvaluated ==
    /\ [](pc = "record" => evaluated = held \cap {symbol})
    /\ [][ManageStep =>
            /\ symbol \in KeySet(positions) =>
                 /\ ~OpenStep
                 /\ opens' = opens
                 /\ positions' \in {positions, DictDel(positions, symbol)}
            /\ \A sym \in KeySet(positions) \ {symbol} :
                 /\ sym \in KeySet(positions')
                 /\ Get(positions', sym) = Get(positions, sym)]_vars

\* two symbols hold a position on a bar; only the bar's own was evaluated
C8_Witness ==
    /\ pc = "record"
    /\ symbol \in held
    /\ held # {symbol}
    /\ evaluated = {symbol}

\* the exit conditions of C9 for a position entered at e, at the price p, in
\* integers: 100 * p against (100 -+ 2) * e and (100 +- 4) * e
StopLossHit(side, e, p) ==
    IF side = "BUY" THEN 100 * p <= 98 * e ELSE 100 * p >= 102 * e
TakeProfitHit(side, e, p) ==
    IF side = "BUY" THEN 100 * p >= 104 * e ELSE 100 * p <= 96 * e

\* C9: a long entered at e is closed on a bar of its symbol exactly when the bar's
\* price p is at most e * (1 - STOP_LOSS_PERCENT), a stop loss, or at least
\* e * (1 + TAKE_PROFIT_PERCENT), a take profit; a short is the mirror.  The two
\* levels are those computed at the open and never change while the position is
\* open, and when both conditions hold the reason is the stop loss.
C9_ExitLevels ==
    /\ [][ManageStep /\ symbol \in KeySet(positions) =>
            LET pos == Get(positions, symbol)
                sl == StopLossHit(pos.side, pos.entry_price[1], current_price[1])
                tp == TakeProfitHit(pos.side, pos.entry_price[1], current_price[1])
            IN  /\ CloseStep <=> sl \/ tp
                /\ ~CloseStep => positions' = positions
                /\ CloseStep =>
                     /\ Last(trades_history').symbol = symbol
                     /\ Last(trades_history').exit_price = current_price
                     /\ Last(trades_history').exit_time = current_time
                     /\ Last(trades_history').reason =
                            IF sl THEN "Stop Loss" ELSE "Take Profit"]_vars
    /\ [](\A k \in 1..Len(positions) :
            LET pos == positions[k]
            IN  /\ pos.entry_price[2] = 1
                /\ pos.stop_loss = Rat((IF pos.side = "BUY" THEN 98 ELSE 102)
                                           * pos.entry_price[1], 100)
                /\ pos.take_profit = Rat((IF pos.side = "BUY" THEN 104 ELSE 96)
                                             * pos.entry_price[1], 100))
    /\ [][\A sym \in KeySet(positions) \cap KeySet(positions') :
            Get(positions', sym) = Get(positions, sym)]_vars

\* a long was stopped out at a price exactly on its stop-loss level
C9_Witness ==
    \E k \in 1..Len(trades_history) :
        /\ trades_history[k].side = "BUY"
        /\ trades_history[k].reason = "Stop Loss"
        /\ 100 * trades_history[k].exit_price[1] = 98 * trades_history[k].entry_price[1]

\* the side the votes of C10 ask for
VotedSide == IF buy_signals >= 2 THEN "BUY" ELSE IF sell_signals >= 2 THEN "SELL" ELSE ""

\* no position was stored on the bar
NothingOpened ==
    /\ ~OpenStep
    /\ opens' = opens
    /\ \A sym \in KeySet(positions') : Get(positions', sym) = Get(positions, sym)

\* C10 as stated: once the bar's exit evaluation is done, a symbol without a
\* position and a position count below MAX_POSITIONS open a long on buy votes
\* >= 2, else a short on sell votes >= 2, else nothing; nothing is opened when
\* either precondition fails.
C10_OpenAfterExit ==
    [][ManageStep =>
         LET closed == Len(trades_history') > Len(trades_history)
             free == symbol \notin KeySet(positions) \/ closed
             count == Len(positions) - (IF closed THEN 1 ELSE 0)
         IN  IF free /\ count < MAX_POSITIONS /\ VotedSide # ""
             THEN OpenedOnBar(positions', VotedSide)
             ELSE ~OpenStep /\ opens' = opens]_vars

\* C10 as the code has it: the two preconditions are taken before the bar's exit
\* evaluation, so a symbol that held a position when the bar began opens nothing
\* on that bar, also when the position was closed on it; and the open is refused
\* when its cost, balance * POSITION_SIZE, exceeds the balance, which is when the
\* balance is negative.
C10_OpenDecision ==
    [][ManageStep =>
         IF /\ symbol \notin KeySet(positions)
            /\ Len(positions) < MAX_POSITIONS
            /\ balance[1] >= 0
            /\ VotedSide # ""
         THEN /\ OpenedOnBar(positions', VotedSide)
              /\ opens' = opens + 1
              /\ Len(positions') = Len(positions) + 1
         ELSE NothingOpened]_vars

\* buy and sell votes both reached 2 and a long was opened at the bar's price
C10_Witness ==
    /\ pc = "record"
    /\ buy_signals >= 2
    /\ sell_signals >= 2
    /\ symbol \notin held
    /\ OpenedOnBar(positions, "BUY")

\* an entry signal on a negative balance was refused
C10_RefusedForFunds ==
    /\ pc = "record"
    /\ balance[1] < 0
    /\ VotedSide # ""
    /\ positions = <<>>
    /\ held = {}

\* C12: every opened position reserves the cash balance of the moment of the open
\* times POSITION_SIZE, holds that amount divided by the entry price as its
\* quantity, and the open debits exactly the reserved cost; the balance is the
\* current one, so the reserve follows the balance as earlier trades changed it.
C12_SizedFromCurrentBalance ==
    [][OpenStep =>
         \A sym \in KeySet(positions') \ KeySet(positions) :
             LET p == Get(positions', sym)
             IN  /\ p.cost = RMul(balance, Rat(1, 100))
                 /\ p.entry_price = current_price
                 /\ RMul(p.position_size, p.entry_price) = p.cost
                 /\ balance' = RSub(balance, p.cost)]_vars

\* a position was opened on a balance that earlier trades had moved away from the
\* initial one, and reserves another amount than a first open does
C12_Witness ==
    /\ trades_history # <<>>
    /\ \E k \in 1..Len(positions) :
         /\ positions[k].timestamp > trades_history[1].exit_time
         /\ positions[k].cost # RMul(R(initial_balance), Rat(1, 100))
         /\ positions[k].cost = RMul(RAdd(balance, positions[k].cost), Rat(1, 100))

\* C13: a call of close_position for a symbol that holds no position, and a call
\* of open_position while MAX_POSITIONS positions are open, raise nothing and
\* leave the cash balance, the position table and the trade history as they were.
C13_SilentNoOps ==
    [][(\/ pc' = "close_position" /\ SYMBOLS[symbol_idx'] \notin KeySet(positions)
        \/ pc' = "open_position" /\ Len(positions) >= MAX_POSITIONS)
           => /\ balance' = balance
              /\ positions' = positions
              /\ trades_history' = trades_history
              /\ opens' = opens]_vars

\* five calls: two opens, a close for a symbol without a position, a third open
\* and an open for a fourth symbol on the full budget
C13_Witness ==
    /\ pc = "open_position"
    /\ current_time = 5
    /\ symbol \notin KeySet(positions)
    /\ Len(positions) = MAX_POSITIONS
    /\ {positions[k].timestamp : k \in 1..Len(positions)} = {0, 1, 3}
    /\ opens = 3
    /\ trades_history = <<>>

\* the value of the positions 1..n of d at the price, position by position
RECURSIVE PositionsValue(_, _, _)
PositionsValue(d, n, price) ==
    IF n = 0 THEN R(0)
    ELSE RAdd(PositionsValue(d, n - 1, price), RMul(d[n].position_size, price))

\* C14: one equity snapshot is appended per processed bar and by nothing else, so
\* that a finished run holds as many snapshots as the primary series of the
\* configured symbols hold candles and the closes at the end of the run add none;
\* each snapshot is the cash balance after the bar's handling plus, over the open
\* positions of every symbol, quantity times the close of the bar being processed.
C14_EquitySnapshots ==
    /\ [](Len(results.balance_history) =
              BarsRead(Len(SYMBOLS)) - (IF pc \in {"manage", "record"} THEN 1 ELSE 0))
    /\ [][results'.balance_history # results.balance_history =>
            /\ pc = "record"
            /\ Len(results'.balance_history) = Len(results.balance_history) + 1
            /\ SubSeq(results'.balance_history, 1, Len(results.balance_history))
                   = results.balance_history
            /\ Last(results'.balance_history).timestamp = current_time
            /\ Last(results'.balance_history).balance =
                   RAdd(balance, PositionsValue(positions, Len(positions), current_price))
            /\ current_price = R(Last(historical_data[symbol]))
            /\ <<balance', positions'>> = <<balance, positions>>]_vars
    /\ [][pc = "record" => results'.balance_history # results.balance_history]_vars

\* a bar's snapshot values the positions of two symbols at the bar's close, which
\* is not the price one of them was entered at
C14_Witness ==
    /\ pc = "bar"
    /\ results.balance_history # <<>>
    /\ Len(positions) = 2
    /\ \E k \in 1..Len(positions) : positions[k].entry_price # current_price
    /\ Last(results.balance_history).balance =
           RAdd(balance, PositionsValue(positions, Len(positions), current_price))
    /\ Last(results.balance_history).balance # R(initial_balance)

\* the balance after the first k trades, the highest balance up to there, and the
\* drawdown there, of a list of pnls replayed from the initial balance
CurveAt(pnls, k) == RAdd(R(initial_balance), SumPnl(SubSeq(pnls, 1, k)))
PeakAt(pnls, k) ==
    LET S == {R(initial_balance)} \cup {CurveAt(pnls, j) : j \in 1..k}
    IN  CHOOSE m \in S : \A x \in S : RLeq(x, m)
DrawdownAt(pnls, k) ==
    LET peak == PeakAt(pnls, k)
        fall == RSub(peak, CurveAt(pnls, k))
    IN  IF peak[1] # 0 THEN RDiv(fall, peak)
        ELSE IF fall[1] = 0 THEN NaN ELSE Inf

\* the largest drawdown of the replay, as a percentage
ReplayedDrawdown(pnls) ==
    LET D == {DrawdownAt(pnls, k) : k \in 1..Len(pnls)}
        F == {R(0)} \cup {d \in D : IsFinite(d)}
    IN  IF Inf \in D THEN Inf
        ELSE RMul(CHOOSE m \in F : \A x \in F : RLeq(x, m), R(100))

\* C17: whatever the trade history and the initial balance, the max_drawdown that
\* calculate_metrics returns is not negative and is the largest drawdown of the
\* replay of the trade pnls from the initial balance: it is determined by the
\* initial balance and the pnl sequence and by nothing else, not by the bar-level
\* equity snapshots of the run.
C17_DrawdownOfPnlsOnly ==
    pc = "done" =>
        LET md == results.metrics.max_drawdown
        IN  /\ md = Inf \/ (IsFinite(md) /\ md[1] >= 0)
            /\ md = ReplayedDrawdown(PnlList(trades_history))

\* a run with snapshots reports the drawdown of a fall from a peak above the
\* initial balance
C17_Witness ==
    /\ pc = "done"
    /\ results.balance_history # <<>>
    /\ initial_balance = 100
    /\ PnlList(trades_history) = <<R(100), R(-100), R(-100)>>
    /\ results.metrics.max_drawdown = R(100)

\* the sum of the absolute values of a list of pnls
RECURSIVE SumAbs(_)
SumAbs(pnls) ==
    IF pnls = <<>> THEN R(0)
    ELSE RAdd(IF Head(pnls)[1] < 0 THEN RNeg(Head(pnls)) ELSE Head(pnls), SumAbs(Tail(pnls)))

\* gross profit and gross loss: the pnls above zero and the pnls below zero sum to
\* the halves of (sum of absolute values) plus and minus (sum)
GrossProfit(pnls) == RDiv(RAdd(SumAbs(pnls), SumPnl(pnls)), R(2))
GrossLoss(pnls) == RDiv(RSub(SumAbs(pnls), SumPnl(pnls)), R(2))

\* C18: profit_factor is the sum of the pnls of the winning trades over the sum of
\* the absolute pnls of the losing trades; with a winning trade and no losing
\* trade it is +infinity, and with an empty trade list it is 0.
C18_ProfitFactor ==
    pc = "done" =>
        LET pnls == PnlList(trades_history)
            pf == results.metrics.profit_factor
        IN  /\ GrossLoss(pnls)[1] > 0 => pf = RDiv(GrossProfit(pnls), GrossLoss(pnls))
            /\ GrossLoss(pnls)[1] = 0 /\ GrossProfit(pnls)[1] > 0 => pf = Inf
            /\ trades_history = <<>> => pf = R(0)

\* two winning trades of 100 and a losing trade of 200: a profit factor of 1,
\* which is neither the ratio of the counts nor that of a single pair
C18_Witness ==
    /\ pc = "done"
    /\ PnlList(trades_history) = <<R(100), R(-200), R(100)>>
    /\ results.metrics.profit_factor = R(1)

\* a winning trade, a break-even trade and no losing trade: +infinity
C18_WitnessInfinite ==
    /\ pc = "done"
    /\ PnlList(trades_history) = <<R(100), R(0)>>
    /\ results.metrics.profit_factor = Inf

MetricFields == {"total_trades", "profitable_trades", "win_rate", "total_pnl",
                 "total_return", "average_pnl", "max_drawdown", "final_balance",
                 "profit_factor"}

\* C19: calculate_metrics is total: for every trade list and every initial balance
\* it returns a metrics structure with every field and never fails.
C19_MetricsTotal ==
    /\ pc # "error"
    /\ pc = "done" => DOMAIN results.metrics = MetricFields

\* the trade lists and initial balances for which calculate_metrics returns in
\* either float arithmetic: no division of lines 227 and 241 has a zero divisor
C19_ReturnsUnlessZeroDivisor ==
    [][pc = "closing" =>
         /\ pc' = "error" =>
              /\ trades_history # <<>>
              /\ \/ initial_balance = 0
                 \/ \E k \in 1..Len(trades_history) :
                        PeakAt(PnlList(trades_history), k)[1] = 0
         /\ pc' = "done" => DOMAIN results'.metrics = MetricFields]_vars

\* C20: with an empty trade list every field is present and every statistic is
\* zero; with trades, win_rate is the number of trades with pnl > 0 over the number
\* of trades, total_pnl is the sum of the pnls and total_return is
\* total_pnl / initial_balance * 100.
C20_MetricValues ==
    pc = "done" =>
        LET m == results.metrics
            pnls == PnlList(trades_history)
            n == Len(trades_history)
            winners == Cardinality({k \in 1..n : pnls[k][1] > 0})
        IN  /\ DOMAIN m = MetricFields
            /\ m.final_balance = balance
            /\ n = 0 =>
                 /\ m.total_trades = 0 /\ m.profitable_trades = 0
                 /\ \A f \in {"win_rate", "total_pnl", "total_return", "average_pnl",
                              "max_drawdown", "profit_factor"} : m[f] = R(0)
            /\ n > 0 =>
                 /\ m.total_trades = n
                 /\ m.profitable_trades = winners
                 /\ m.win_rate = Rat(winners, n)
                 /\ m.total_pnl = RSub(GrossProfit(pnls), GrossLoss(pnls))
                 /\ m.average_pnl = RDiv(m.total_pnl, R(n))
                 /\ initial_balance # 0 =>
                      m.total_return = Rat(100 * m.total_pnl[1],
                                           initial_balance * m.total_pnl[2])

\* a winner, a break-even trade and a loser on an initial balance of 100: a win
\* rate of one third and a return of -100 per cent
C20_Witness ==
    /\ pc = "done"
    /\ initial_balance = 100
    /\ PnlList(trades_history) = <<R(100), R(0), R(-200)>>
    /\ results.metrics.win_rate = Rat(1, 3)
    /\ results.metrics.total_pnl = R(-100)
    /\ results.metrics.total_return = R(-100)

\* no trade: every statistic is zero
C20_WitnessEmpty ==
    /\ pc = "done"
    /\ trades_history = <<>>
    /\ results.metrics.total_trades = 0
    /\ results.metrics.profit_factor = R(0)

\* the trades in chronological order: ascending exit time, trades that end at the
\* same time in the order of the list
RECURSIVE InsertByExitTime(_, _)
InsertByExitTime(sorted, t) ==
    IF sorted = <<>> \/ Last(sorted).exit_time <= t.exit_time THEN Append(sorted, t)
    ELSE Append(InsertByExitTime(SubSeq(sorted, 1, Len(sorted) - 1), t), Last(sorted))
RECURSIVE Chronological(_)
Chronological(trades) ==
    IF trades = <<>> THEN <<>>
    ELSE InsertByExitTime(Chronological(SubSeq(trades, 1, Len(trades) - 1)), Last(trades))

\* the place of a symbol in the configuration
SymbolIndex(sym) == CHOOSE k \in 1..Len(SYMBOLS) : SYMBOLS[k] = sym

\* C16 as stated: max_drawdown is the largest drawdown, times 100, of the balance
\* curve that starts at initial_balance and adds the pnls of the trades in
\* chronological order, also when the trades of several symbols overlap in time.
C16_ChronologicalReplay ==
    pc = "done" =>
        results.metrics.max_drawdown =
            ReplayedDrawdown(PnlList(Chronological(results.trades)))

\* C16 as the code has it: the curve adds the pnls in the order of the trade list,
\* which is the order the run recorded the trades in: the closes of the bar loop
\* symbol by symbol in configuration order, those of one symbol in ascending time,
\* then the closes of the end of the run.  max_drawdown is the largest
\* (peak - balance) / peak over that curve, the peak being the highest balance so
\* far and at least initial_balance, times 100.
C16_ListOrderReplay ==
    pc = "done" =>
        /\ results.metrics.max_drawdown = ReplayedDrawdown(PnlList(results.trades))
        /\ \A j, k \in 1..Len(results.trades) :
             LET a == results.trades[j]
                 b == results.trades[k]
             IN  j < k =>
                   /\ a.symbol = b.symbol => a.exit_time <= b.entry_time
                   /\ b.reason # "End of Backtest" =>
                        /\ a.reason # "End of Backtest"
                        /\ SymbolIndex(a.symbol) <= SymbolIndex(b.symbol)

\* the first symbol's losing trade ended after the second symbol's winning trade
\* and is replayed before it: the reported drawdown is the fall from the initial
\* balance, not the smaller one from the peak the winning trade had reached
C16_Witness ==
    /\ pc = "done"
    /\ Len(results.trades) = 2
    /\ results.trades[1].exit_time > results.trades[2].exit_time
    /\ results.trades[1].pnl[1] < 0
    /\ results.trades[2].pnl[1] > 0
    /\ results.metrics.max_drawdown =
           RMul(RDiv(RNeg(results.trades[1].pnl), R(initial_balance)), R(100))
    /\ results.metrics.max_drawdown #
           ReplayedDrawdown(PnlList(Chronological(results.trades)))

\* the input holds no candle of the symbol's primary series: no series, or one
\* without rows
NoCandles(sym) == sym \notin DOMAIN historical_data \/ historical_data[sym] = <<>>

\* C15: run_backtest aborts with an error, returning neither trades nor metrics,
\* when the input holds no candle of the primary series of a configured symbol,
\* and in no other case: with a candle for every configured symbol the run
\* completes and returns the trades, one snapshot per candle and the metrics.
C15_FailsOnlyWithoutData ==
    /\ [](pc = "error" =>
            /\ \E sym \in SymbolSet : NoCandles(sym)
            /\ results.trades = <<>>
            /\ results.metrics = <<>>)
    /\ [](pc = "done" =>
            /\ \A sym \in SymbolSet : ~NoCandles(sym)
            /\ results.trades = trades_history
            /\ DOMAIN results.metrics = MetricFields
            /\ Len(results.balance_history) = BarsRead(Len(SYMBOLS)))
    /\ ((\E sym \in SymbolSet : sym \notin DOMAIN historical_data) ~> pc = "error")
    /\ ((pc = "final" /\ \E sym \in SymbolSet : NoCandles(sym)) ~> pc = "error")
    /\ ((pc = "final" /\ \A sym \in SymbolSet : ~NoCandles(sym)) ~> pc = "done")

\* the run aborted on the second symbol, whose series the input lacks, after the
\* first symbol had opened and closed a position: nothing of it is returned
C15_Witness ==
    /\ pc = "error"
    /\ "ETHUSDT" \notin DOMAIN historical_data
    /\ trades_history # <<>>
    /\ results.balance_history # <<>>
    /\ results.trades = <<>>

\* the run aborted after the last bar on a series that is there and has no rows
C15_WitnessEmptySeries ==
    /\ pc = "error"
    /\ DOMAIN historical_data = SymbolSet
    /\ historical_data["ETHUSDT"] = <<>>
    /\ Len(historical_data["BTCUSDT"]) = MaxDataBars

\* the timeframes of the configuration
ConfiguredTimeframes == {TIMEFRAMES[k] : k \in 1..Len(TIMEFRAMES)}

\* the pattern of a non-empty list that carries the latest timestamp
MostRecent(list) ==
    CHOOSE p \in {list[k] : k \in 1..Len(list)} :
        \A k \in 1..Len(list) : list[k].timestamp <= p.timestamp

\* the timeframes among tfs whose snapshot of the bar has a most recent order
\* block, or a most recent fair-value gap, of the type
VotingOrderBlocks(tfs, type) ==
    {tf \in tfs \cap DOMAIN patterns_by_timeframe :
        /\ patterns_by_timeframe[tf].order_blocks # <<>>
        /\ MostRecent(patterns_by_timeframe[tf].order_blocks).type = type}

VotingGaps(tfs, type) ==
    {tf \in tfs \cap DOMAIN patterns_by_timeframe :
        /\ patterns_by_timeframe[tf].fair_value_gaps # <<>>
        /\ MostRecent(patterns_by_timeframe[tf].fair_value_gaps).type = type}

VotesOver(tfs, type) ==
    Cardinality(VotingOrderBlocks(tfs, type)) + Cardinality(VotingGaps(tfs, type))

\* C11: on every bar the buy and sell votes are the sums over the configured
\* timeframes of one vote for the most recent order block and one for the most
\* recent fair-value gap of the timeframe's snapshot, bullish voting buy and
\* bearish voting sell, so that together they never exceed twice the number of
\* configured timeframes.
C11_VotesOverConfigured ==
    pc = "manage" =>
        /\ buy_signals = VotesOver(ConfiguredTimeframes, "bullish")
        /\ sell_signals = VotesOver(ConfiguredTimeframes, "bearish")
        /\ buy_signals + sell_signals <= 2 * Len(TIMEFRAMES)

\* what the code computes: the same sums over the timeframes for which the input
\* holds a series of the symbol, configured or not
C11_VotesOverInputTimeframes ==
    pc = "manage" =>
        /\ buy_signals = VotesOver(timeframes_of(candle_data, symbol), "bullish")
        /\ sell_signals = VotesOver(timeframes_of(candle_data, symbol), "bearish")
        /\ buy_signals + sell_signals
               <= 2 * Cardinality(timeframes_of(candle_data, symbol))

\* on an input whose timeframes are all configured the two agree
C11_VotesOnConfiguredInput ==
    timeframes_of(candle_data, symbol) \subseteq ConfiguredTimeframes
        => C11_VotesOverConfigured

\* a bar whose snapshot of a timeframe holds an older bullish and a most recent
\* bearish order block: the timeframe votes sell once and buy not at all
C11_WitnessOlderIgnored ==
    /\ pc = "manage"
    /\ DOMAIN patterns_by_timeframe = {"1h"}
    /\ Len(patterns_by_timeframe["1h"].order_blocks) = 2
    /\ patterns_by_timeframe["1h"].order_blocks[1].type = "bullish"
    /\ patterns_by_timeframe["1h"].order_blocks[2].type = "bearish"
    /\ patterns_by_timeframe["1h"].fair_value_gaps = <<>>
    /\ buy_signals = 0
    /\ sell_signals = 1

\* one timeframe is configured, the input also holds a series of another one,
\* and the bar collects two buy and two sell votes from the two snapshots
C11_WitnessUnconfigured ==
    /\ pc = "manage"
    /\ TIMEFRAMES = <<"1h">>
    /\ DOMAIN patterns_by_timeframe = {"1h", "4h"}
    /\ buy_signals = 2
    /\ sell_signals = 2

\* the sum of the costs reserved by the open positions
RECURSIVE ReservedCost(_)
ReservedCost(d) == IF d = <<>> THEN R(0) ELSE RAdd(Head(d).cost, ReservedCost(Tail(d)))

\* C26: in every state of a run the cash balance plus the costs reserved by the
\* open positions equals the initial balance plus the pnl of all recorded trades,
\* and the metrics of a completed run report final_balance = initial_balance +
\* total_pnl.
C26_MoneyConserved ==
    /\ RAdd(balance, ReservedCost(positions))
           = RAdd(R(initial_balance), SumPnl(PnlList(trades_history)))
    /\ pc = "done" =>
           results.metrics.final_balance
               = RAdd(R(initial_balance), results.metrics.total_pnl)

\* a completed run that closed one position with a gain and one with a loss
C26_Witness ==
    /\ pc = "done"
    /\ \E k \in 1..Len(trades_history) : trades_history[k].pnl[1] > 0
    /\ \E k \in 1..Len(trades_history) : trades_history[k].pnl[1] < 0
    /\ results.metrics.final_balance # R(initial_balance)

\* a state of a run with cash reserved by an open position after a trade was recorded
C26_WitnessReserved ==
    /\ positions # <<>>
    /\ trades_history # <<>>
    /\ trades_history[1].pnl[1] # 0

\* the step closes a short at more than twice its entry price, which loses more
\* than the cost the position had reserved
ShortClosedAboveTwiceEntry ==
    /\ Len(trades_history') = Len(trades_history) + 1
    /\ Last(trades_history').side = "SELL"
    /\ RGt(Last(trades_history').exit_price,
           RMul(R(2), Last(trades_history').entry_price))

\* C28 as stated: with a positive initial balance and positive candle prices the
\* cash balance is never negative in any state of a run.
C28_BalanceNeverNegative == balance[1] >= 0

\* C28: with a positive initial balance and positive candle prices the cash
\* balance turns negative only on a step that closes a short at more than twice
\* its entry price; no open, no close of a long and no other close of a short
\* takes a non-negative balance below zero.
C28_NegativeOnlyByShortLoss ==
    [][(balance[1] >= 0 /\ balance'[1] < 0) => ShortClosedAboveTwiceEntry]_vars

\* a short opened at 1 was stopped out at a close above 2 and left the balance
\* below zero
C28_Witness ==
    /\ initial_balance > 0
    /\ balance[1] < 0
    /\ trades_history # <<>>
    /\ Last(trades_history).side = "SELL"
    /\ Last(trades_history).reason = "Stop Loss"
    /\ Last(trades_history).entry_price = R(1)

\* a long lost its stop and a short was closed with a loss below its cost, and
\* the balance stayed positive
C28_WitnessBoundedLoss ==
    /\ balance[1] > 0
    /\ \E k \in 1..Len(trades_history) :
         /\ trades_history[k].side = "SELL"
         /\ trades_history[k].pnl[1] < 0

\* the window handed to analyze_patterns and the dict it returned
window_df == candle_data[analyzed_key]
returned_patterns == patterns_by_timeframe[TIMEFRAMES[1]]

\* the candle at index ix, counted from 0, of the window
CandleAt(ix) == window_df[ix + 1]

\* the positions in a list of patterns of the patterns of a type stamped by the
\* candle at index ix
EmittedAt(list, type, ix) ==
    {k \in 1..Len(list) : list[k].type = type /\ list[k].timestamp = CandleAt(ix).timestamp}

\* the patterns of a list follow the index order of their candles, and at one
\* candle the first type precedes the second
InIndexOrder(list, first, second) ==
    \A k \in 1..(Len(list) - 1) :
        \/ list[k].timestamp < list[k + 1].timestamp
        \/ /\ list[k].timestamp = list[k + 1].timestamp
           /\ list[k].type = first
           /\ list[k + 1].type = second

\* the five candles on either side of index ix
Neighbours(ix) == ((ix - 5)..(ix + 5)) \ {ix}

\* C22: identify_liquidity_levels emits a resistance level at index i exactly
\* when 5 <= i < len - 5 and high[i] is strictly above the high of each of the 5
\* candles before and after it, and a support level under the same condition on
\* the lows, strictly below; the level carries the candle's high (low) and
\* timestamp, the output follows index order, and 11 candles whose single
\* maximum high is at the centre yield one resistance level, at the centre.
C22_LiquidityLevels ==
    pc = "returned" =>
        LET levels == returned_patterns.liquidity_levels
            len == Len(window_df)
        IN  /\ \A ix \in 0..(len - 1) :
                 /\ Cardinality(EmittedAt(levels, "resistance", ix)) =
                        IF /\ 5 <= ix
                           /\ ix < len - 5
                           /\ \A j \in Neighbours(ix) : CandleAt(ix).High > CandleAt(j).High
                        THEN 1 ELSE 0
                 /\ Cardinality(EmittedAt(levels, "support", ix)) =
                        IF /\ 5 <= ix
                           /\ ix < len - 5
                           /\ \A j \in Neighbours(ix) : CandleAt(ix).Low < CandleAt(j).Low
                        THEN 1 ELSE 0
                 /\ \A k \in EmittedAt(levels, "resistance", ix) :
                        levels[k].price = CandleAt(ix).High
                 /\ \A k \in EmittedAt(levels, "support", ix) :
                        levels[k].price = CandleAt(ix).Low
            /\ \A k \in 1..Len(levels) :
                 /\ levels[k].type \in {"resistance", "support"}
                 /\ \E ix \in 5..(len - 6) : levels[k].timestamp = CandleAt(ix).timestamp
            /\ InIndexOrder(levels, "resistance", "support")
            /\ (len = 11 /\ \A j \in Neighbours(5) : CandleAt(5).High > CandleAt(j).High)
                   => /\ Cardinality({k \in 1..Len(levels) : levels[k].type = "resistance"}) = 1
                      /\ EmittedAt(levels, "resistance", 5) # {}

\* 11 candles with their single highest high at the centre: one level, a
\* resistance at the centre
C22_Witness ==
    /\ pc = "returned"
    /\ Len(window_df) = 11
    /\ \A j \in Neighbours(5) : CandleAt(5).High > CandleAt(j).High
    /\ Len(returned_patterns.liquidity_levels) = 1
    /\ returned_patterns.liquidity_levels[1] =
           [type |-> "resistance", price |-> 20, timestamp |-> 5]

\* 12 candles with a resistance at index 5 and a support at index 6, in that order
C22_WitnessTwoLevels ==
    /\ pc = "returned"
    /\ Len(window_df) = 12
    /\ Len(returned_patterns.liquidity_levels) = 2
    /\ returned_patterns.liquidity_levels[1].type = "resistance"
    /\ returned_patterns.liquidity_levels[1].timestamp = 5
    /\ returned_patterns.liquidity_levels[2].type = "support"
    /\ returned_patterns.liquidity_levels[2].timestamp = 6

\* a candle with the highest high 5 candles from the start, and 4 from the end:
\* no level
C22_WitnessBoundary ==
    /\ pc = "returned"
    /\ Len(window_df) = 10
    /\ \A j \in 0..9 : j # 5 => CandleAt(5).High > CandleAt(j).High
    /\ returned_patterns.liquidity_levels = <<>>

\* candle ix of the window rises, falls
Rises(ix) == CandleAt(ix).Close > CandleAt(ix).Open
Falls(ix) == CandleAt(ix).Close < CandleAt(ix).Open

\* (high - low) / low of candle ix against the 2 % of LIQUIDITY_THRESHOLD
RangeAboveThreshold(ix) ==
    (CandleAt(ix).High - CandleAt(ix).Low) * 100 > 2 * CandleAt(ix).Low
RangeAtThreshold(ix) ==
    (CandleAt(ix).High - CandleAt(ix).Low) * 100 = 2 * CandleAt(ix).Low

\* C23: identify_order_blocks emits a bullish order block at index i exactly when
\* candle i rises, candle i+1 falls and the range of candle i+1 relative to its
\* low is strictly above LIQUIDITY_THRESHOLD, and a bearish block when candle i
\* falls, candle i+1 rises and the same range test holds; a range equal to the
\* threshold gives no block; a block carries candle i's high, low and timestamp.
C23_OrderBlocks ==
    pc = "returned" =>
        LET blocks == returned_patterns.order_blocks
            len == Len(window_df)
        IN  /\ \A ix \in 0..(len - 1) :
                 /\ Cardinality(EmittedAt(blocks, "bullish", ix)) =
                        IF /\ ix + 1 < len
                           /\ Rises(ix)
                           /\ Falls(ix + 1)
                           /\ RangeAboveThreshold(ix + 1)
                        THEN 1 ELSE 0
                 /\ Cardinality(EmittedAt(blocks, "bearish", ix)) =
                        IF /\ ix + 1 < len
                           /\ Falls(ix)
                           /\ Rises(ix + 1)
                           /\ RangeAboveThreshold(ix + 1)
                        THEN 1 ELSE 0
                 /\ (ix + 1 < len /\ RangeAtThreshold(ix + 1)) =>
                        /\ EmittedAt(blocks, "bullish", ix) = {}
                        /\ EmittedAt(blocks, "bearish", ix) = {}
                 /\ \A k \in EmittedAt(blocks, "bullish", ix) \cup
                                 EmittedAt(blocks, "bearish", ix) :
                        /\ blocks[k].top = CandleAt(ix).High
                        /\ blocks[k].bottom = CandleAt(ix).Low
            /\ \A k \in 1..Len(blocks) :
                 /\ blocks[k].type \in {"bullish", "bearish"}
                 /\ \E ix \in 0..(len - 2) : blocks[k].timestamp = CandleAt(ix).timestamp

\* four candles rising, falling, rising, falling with ranges above the
\* threshold: a bullish, a bearish and a bullish block at indexes 0, 1 and 2
C23_Witness ==
    /\ pc = "returned"
    /\ Len(window_df) = 4
    /\ returned_patterns.order_blocks =
           <<[type |-> "bullish", top |-> 210, bottom |-> 203, timestamp |-> 0],
             [type |-> "bearish", top |-> 200, bottom |-> 190, timestamp |-> 1],
             [type |-> "bullish", top |-> 210, bottom |-> 203, timestamp |-> 2]>>

\* a rising candle followed by a falling candle whose range is the threshold
\* exactly: no block
C23_WitnessAtThreshold ==
    /\ pc = "returned"
    /\ Len(window_df) = 2
    /\ Rises(0)
    /\ Falls(1)
    /\ RangeAtThreshold(1)
    /\ returned_patterns.order_blocks = <<>>

\* the candle after index ix lies above (below) the candle before it by more
\* than the 1.5 % of IMBALANCE_THRESHOLD, relative to the lower edge of the gap
GapUp(ix) ==
    /\ CandleAt(ix + 1).Low > CandleAt(ix - 1).High
    /\ (CandleAt(ix + 1).Low - CandleAt(ix - 1).High) * 1000 > 15 * CandleAt(ix - 1).High
GapDown(ix) ==
    /\ CandleAt(ix + 1).High < CandleAt(ix - 1).Low
    /\ (CandleAt(ix - 1).Low - CandleAt(ix + 1).High) * 1000 > 15 * CandleAt(ix + 1).High

\* C24: identify_fair_value_gaps emits for every index i in [1, len-2] a bullish
\* gap (top low[i+1], bottom high[i-1]) exactly when low[i+1] > high[i-1] and
\* (low[i+1]-high[i-1])/high[i-1] is strictly above IMBALANCE_THRESHOLD, and a
\* bearish gap (top low[i-1], bottom high[i+1]) exactly when high[i+1] < low[i-1]
\* and (low[i-1]-high[i+1])/high[i+1] is strictly above the threshold; the gap is
\* stamped by the middle candle i; the first and the last candle are never the
\* middle of a gap.
C24_FairValueGaps ==
    pc = "returned" =>
        LET gaps == returned_patterns.fair_value_gaps
            len == Len(window_df)
        IN  /\ \A ix \in 0..(len - 1) :
                 /\ Cardinality(EmittedAt(gaps, "bullish", ix)) =
                        IF 1 <= ix /\ ix <= len - 2 /\ GapUp(ix) THEN 1 ELSE 0
                 /\ Cardinality(EmittedAt(gaps, "bearish", ix)) =
                        IF 1 <= ix /\ ix <= len - 2 /\ GapDown(ix) THEN 1 ELSE 0
                 /\ \A k \in EmittedAt(gaps, "bullish", ix) :
                        /\ gaps[k].top = CandleAt(ix + 1).Low
                        /\ gaps[k].bottom = CandleAt(ix - 1).High
                 /\ \A k \in EmittedAt(gaps, "bearish", ix) :
                        /\ gaps[k].top = CandleAt(ix - 1).Low
                        /\ gaps[k].bottom = CandleAt(ix + 1).High
            /\ \A k \in 1..Len(gaps) :
                 /\ gaps[k].type \in {"bullish", "bearish"}
                 /\ \E ix \in 1..(len - 2) : gaps[k].timestamp = CandleAt(ix).timestamp

\* four candles: the third lies 2 % above the first, the fourth far below the
\* second; a bullish gap stamped by candle 1 and a bearish gap stamped by candle 2
C24_Witness ==
    /\ pc = "returned"
    /\ Len(window_df) = 4
    /\ returned_patterns.fair_value_gaps =
           <<[type |-> "bullish", top |-> 204, bottom |-> 200, timestamp |-> 1],
             [type |-> "bearish", top |-> 203, bottom |-> 102, timestamp |-> 2]>>

\* the third candle lies above the first by the threshold exactly: no gap
C24_WitnessAtThreshold ==
    /\ pc = "returned"
    /\ Len(window_df) = 3
    /\ CandleAt(2).Low > CandleAt(0).High
    /\ (CandleAt(2).Low - CandleAt(0).High) * 1000 = 15 * CandleAt(0).High
    /\ returned_patterns.fair_value_gaps = <<>>

\* C25: analyze_patterns raises on no window, the empty one included, and each
\* detector returns an empty list on a window shorter than its minimum: fewer
\* than 11 candles for the liquidity levels, fewer than 2 for the order blocks,
\* fewer than 3 for the fair-value gaps, whatever the other detectors report.
C25_FailSoft ==
    /\ pc # "error"
    /\ pc = "returned" =>
        /\ DOMAIN returned_patterns = {"liquidity_levels", "order_blocks", "fair_value_gaps"}
        /\ Len(window_df) < 2 * SwingWindow + 1 => returned_patterns.liquidity_levels = <<>>
        /\ Len(window_df) < 2 => returned_patterns.order_blocks = <<>>
        /\ Len(window_df) < 3 => returned_patterns.fair_value_gaps = <<>>

\* a window of 2 candles: an order block is reported, no gap and no level
C25_Witness ==
    /\ pc = "returned"
    /\ Len(window_df) = 2
    /\ returned_patterns.order_blocks # <<>>
    /\ returned_patterns.fair_value_gaps = <<>>
    /\ returned_patterns.liquidity_levels = <<>>

\* the empty window: three empty lists are returned
C25_WitnessEmpty ==
    /\ pc = "returned"
    /\ window_df = <<>>
    /\ returned_patterns.order_blocks = <<>>
    /\ returned_patterns.fair_value_gaps = <<>>
    /\ returned_patterns.liquidity_levels = <<>>

\* a window of 10 candles with the highest high at index 5: an order block and a
\* gap are reported, no level
C25_WitnessTooShortForLevels ==
    /\ pc = "returned"
    /\ Len(window_df) = 10
    /\ \A j \in 0..9 : j # 5 => CandleAt(5).High > CandleAt(j).High
    /\ returned_patterns.order_blocks # <<>>
    /\ returned_patterns.fair_value_gaps # <<>>
    /\ returned_patterns.liquidity_levels = <<>>

\* the series of a timeframe of the symbol of the bar, and of its primary timeframe
SeriesOfTimeframe(tf) == candle_data[<<symbol, tf>>]
PrimarySeries == candle_data[primary_key(symbol)]

\* no candle of the series is nearer in time to t than the one at index idx
NearestTo(series, idx, t) ==
    /\ idx \in 0..(Len(series) - 1)
    /\ \A j \in 1..Len(series) :
         Abs(series[idx + 1].timestamp - t) <= Abs(series[j].timestamp - t)

\* the window is the run of n consecutive candles of the series that ends at
\* index idx
ConsecutiveEndingAt(window, series, idx, n) ==
    /\ Len(window) = n
    /\ \A k \in 1..n : window[k] = series[idx + 1 - n + k]

\* C21: on the bar with primary index i and timestamp t the analyzer is given,
\* for each timeframe of the symbol, exactly the min(idx+1, 100) consecutive
\* candles of the timeframe's series that end at idx, the index of the candle
\* nearest in time to t, and idx = i for the primary timeframe; the bars of the
\* primary series are processed in ascending index order, each exactly once.
C21_WindowsAndClock ==
    /\ pc = "manage" =>
         /\ i = Len(results.balance_history)
         /\ current_time = PrimarySeries[i + 1].timestamp
         /\ DOMAIN analysis_windows =
                {tf \in timeframes_of(candle_data, symbol) : SeriesOfTimeframe(tf) # <<>>}
         /\ DOMAIN patterns_by_timeframe = DOMAIN analysis_windows
         /\ analysis_windows[TIMEFRAMES[1]].current_idx = i
         /\ \A tf \in DOMAIN analysis_windows :
              LET idx == analysis_windows[tf].current_idx
              IN  /\ NearestTo(SeriesOfTimeframe(tf), idx, current_time)
                  /\ ConsecutiveEndingAt(analysis_windows[tf].analysis_df,
                                         SeriesOfTimeframe(tf), idx,
                                         IF idx + 1 < 100 THEN idx + 1 ELSE 100)
                  /\ patterns_by_timeframe[tf] =
                         analyze_patterns(analysis_windows[tf].analysis_df)
    /\ Len(results.balance_history) <= Len(PrimarySeries)
    /\ \A k \in 1..Len(results.balance_history) :
         results.balance_history[k].timestamp = PrimarySeries[k].timestamp
    /\ pc \in {"final", "closing", "done"} =>
         Len(results.balance_history) = Len(PrimarySeries)

\* the bar at index 101 of a series of 102 candles: the analyzer is given the
\* 100 candles at indexes 2 to 101
C21_Witness ==
    /\ pc = "manage"
    /\ i = 101
    /\ Len(analysis_windows["1h"].analysis_df) = 100
    /\ analysis_windows["1h"].analysis_df[1].timestamp = 2
    /\ analysis_windows["1h"].analysis_df[100].timestamp = 101

\* the bar at index 3 with a second series stamped 0 and 4: its nearest candle
\* is the one at index 1, both candles are handed to the analyzer
C21_WitnessNearest ==
    /\ pc = "manage"
    /\ i = 3
    /\ "4h" \in DOMAIN analysis_windows
    /\ analysis_windows["4h"].current_idx = 1
    /\ Len(analysis_windows["4h"].analysis_df) = 2
    /\ Len(analysis_windows["1h"].analysis_df) = 4

\* the candles of the window a timeframe handed to the analyzer on the bar
HandedCandles(tf) ==
    {analysis_windows[tf].analysis_df[k] : k \in 1..Len(analysis_windows[tf].analysis_df)}

\* C27: on the bar with timestamp t every candle of every window handed to the
\* pattern analyzer, for the primary and for every other timeframe, is stamped
\* t or earlier, so that an open decision at t depends on no later candle.
C27_NoLookAhead ==
    pc = "manage" =>
        \A tf \in DOMAIN analysis_windows :
            \A candle \in HandedCandles(tf) : candle.timestamp <= current_time

\* what the code keeps: the window of the primary timeframe ends at the bar
C27_PrimaryNoLookAhead ==
    pc = "manage" =>
        \A candle \in HandedCandles(TIMEFRAMES[1]) : candle.timestamp <= current_time

\* a long was opened on a bar on two buy votes, one of them from the order block
\* that the later candle of the second timeframe completes
C27_WitnessOpenOnLaterCandle ==
    /\ pc = "record"
    /\ positions # <<>>
    /\ Last(positions).timestamp = current_time
    /\ Last(positions).side = "BUY"
    /\ buy_signals = 2
    /\ "4h" \in DOMAIN analysis_windows
    /\ \E candle \in HandedCandles("4h") : candle.timestamp > current_time
    /\ signals_of(patterns_by_timeframe["4h"], "bullish") = 1
    /\ patterns_by_timeframe["4h"].fair_value_gaps = <<>>

====
